---- MODULE Spec2Model ----
(***************************************************************************)
(* Creator discovery pipeline: discover_instagram_profiles                 *)
(* (discovery_tasks.py) driving InsightIQDiscovery.search_profiles         *)
(* (discovery_module.py, app/services/insightiq.py), the HubSpot batch     *)
(* import and the Redis job record, under the Celery configuration of      *)
(* celery_app.py.                                                          *)
(*                                                                         *)
(* Time is counted in ticks of half a second, the granularity of the       *)
(* inter-batch delay time.sleep(0.5).  Lists of profiles are modelled by   *)
(* their lengths.  The Redis store is taken to be reliable: r.get and      *)
(* r.setex do not raise.                                                   *)
(*                                                                         *)
(* Besides the run of the task (Spec, SpecRerun) the module holds the      *)
(* functions called on their own: _standardize_results (SpecStandardize),  *)
(* _extract_contact_details (SpecExtract), update_discovery_job_status     *)
(* with the 24 h expiry of its key (SpecStore), two runs of the task       *)
(* interleaving their reads and writes of the job record (SpecRuns), the  *)
(* request parameters search_profiles builds (SpecRequest), and the poll   *)
(* loop of _fetch_results facing any vendor (SpecPoll, SpecPollFair).      *)
(***************************************************************************)
EXTENDS Integers, Sequences, FiniteSets, TLC

(***************************************************************************)
(* Program constants                                                       *)
(***************************************************************************)
TicksPerSecond == 2
MaxWaitTime == 600
PollSleep == 60
RequestTimeout == 30
PageLimit == 100
ChunkSize == 100
InterBatchDelayTicks == 1
TaskTimeLimit == 600
JobTtl == 86400

(***************************************************************************)
(* Bounds of the model                                                     *)
(***************************************************************************)
MaxHandleLen == 1
MaxPages == 3
MaxMalformed == 1
MaxRaw == 2
MaxDetails == 2

None == "None"
NotYet == 0 - 1
JobId == "job-1"

Callers == {"worker", "inline", "direct"}
Impls == {"discovery_module", "app_services"}

(***************************************************************************)
(* Strings that the code strips are sequences of characters.               *)
(***************************************************************************)
Chars == {" ", "a"}
Handles == UNION {[1..n -> Chars] : n \in 0..MaxHandleLen}

RECURSIVE LStrip(_)
LStrip(s) == IF s # <<>> /\ Head(s) = " " THEN LStrip(Tail(s)) ELSE s

RECURSIVE RStrip(_)
RStrip(s) == IF s # <<>> /\ s[Len(s)] = " " THEN RStrip(SubSeq(s, 1, Len(s) - 1)) ELSE s

Strip(s) == RStrip(LStrip(s))

LookalikeTypes == {None, "creator", "audience", "similar"}
FilterSpecs == [lookalike_type : LookalikeTypes, lookalike_username : Handles]

(***************************************************************************)
(* Error messages raised by the code                                       *)
(***************************************************************************)
NoError == "no error"
ErrCredentials == "INSIGHTIQ_CLIENT_ID and INSIGHTIQ_SECRET must be set in environment"
ErrLookalikeType == "lookalike_type must be 'creator' or 'audience'"
ErrLookalikeUsername == "lookalike_username required when lookalike_type is set"
ErrStartFailed == "Failed to start job: <response text>"
ErrNoJobId == "No job ID returned from API"
ErrConnect == "Failed to connect to InsightIQ API: <exception>"
ErrTimeout == "Job timeout after 600 seconds"
ErrFetchStatus == "Failed to fetch results: <response text>"
ErrFetchTransport == "Failed to fetch results: <exception>"
\* variant: the message does not say what the vendor reported
JobFailedMessage_NoText(error) == "Job failed"

\* error_msg = data.get('error', 'Unknown error'); f"Job failed: {error_msg}"
JobFailedMessage(error) ==
    "Job failed: " \o (IF error = None THEN "Unknown error" ELSE error)

ErrJobFailed == JobFailedMessage("<vendor error>")
ErrHubspotKey == "HUBSPOT_API_KEY must be set in environment"
\* profile.get('bio', '')[:5000] on a bio that is a number
ErrBioType == "'int' object is not subscriptable"

ValidationErrors == {ErrLookalikeType, ErrLookalikeUsername}

(***************************************************************************)
(* The length of an error's text.  A message built with an f-string holds  *)
(* the whole text it is given: response.text, the text of the exception    *)
(* or the vendor's error value, each of any length.                        *)
(***************************************************************************)
MaxTextLen == 2000
TextLens == {0, MaxTextLen}

OpenTextErrors ==
    {ErrStartFailed, ErrConnect, ErrFetchStatus, ErrFetchTransport}
        \cup {JobFailedMessage(e) : e \in {"<vendor error>", "quota exceeded"}}

\* the characters of the message before the text it embeds
PrefixLen(e) ==
    CASE e = ErrStartFailed -> 21
      [] e = ErrConnect -> 36
      [] e \in {ErrFetchStatus, ErrFetchTransport} -> 25
      [] OTHER -> 12

\* the characters of a message that embeds no text
FixedLen(e) ==
    CASE e = ErrCredentials -> 67
      [] e = ErrLookalikeType -> 46
      [] e = ErrLookalikeUsername -> 54
      [] e = ErrNoJobId -> 27
      [] e = ErrTimeout -> 29
      [] e = ErrHubspotKey -> 42
      [] e = ErrBioType -> 33
      [] e = JobFailedMessage(None) -> 25
      [] OTHER -> 0

\* len(str(e)) for the exceptions the message e stands for
MessageLens(e) ==
    IF e \in OpenTextErrors THEN {PrefixLen(e) + n : n \in TextLens} ELSE {FixedLen(e)}

\* error=str(e): the text is stored as it is
PersistedLen(n) == n

(***************************************************************************)
(* discover_instagram_profiles, lines 48-64: the checks made before the    *)
(* client is created.  A value that is None or '' is falsy.                *)
(***************************************************************************)
ValidationError(creds, f) ==
    LET lookalike_type == f.lookalike_type
        lookalike_username == Strip(f.lookalike_username)
    IN  IF ~creds THEN ErrCredentials
        ELSE IF lookalike_type # None /\ lookalike_type \notin {"creator", "audience"}
             THEN ErrLookalikeType
        ELSE IF lookalike_type # None /\ lookalike_username = <<>>
             THEN ErrLookalikeUsername
        ELSE NoError

(***************************************************************************)
(* search_profiles: the lookalike part of the request parameters.          *)
(***************************************************************************)
NoLookalike == [kind |-> None, handle |-> <<>>]

BuildLookalike(f) ==
    LET lookalike_type == f.lookalike_type
        lookalike_username == Strip(f.lookalike_username)
    IN  IF lookalike_type = "creator" /\ lookalike_username # <<>>
        THEN [kind |-> "creator_lookalikes", handle |-> lookalike_username]
        ELSE IF lookalike_type = "audience" /\ lookalike_username # <<>>
        THEN [kind |-> "audience_lookalikes", handle |-> lookalike_username]
        ELSE NoLookalike

(***************************************************************************)
(* _start_job: which HTTP statuses of the submission are accepted.         *)
(***************************************************************************)
SubmitStatuses == {200, 202, 500}

StartJobAccepts(im, status) ==
    IF im = "discovery_module" THEN status = 200 ELSE status \in {200, 202}

StartJobError(im, resp) ==
    IF resp.transport_error THEN ErrConnect
    ELSE IF ~StartJobAccepts(im, resp.status) THEN ErrStartFailed
    ELSE IF ~resp.has_id THEN ErrNoJobId
    ELSE NoError

(***************************************************************************)
(* _fetch_results: the deadline test and the end-of-pages test.            *)
(***************************************************************************)
\* variant: the deadline is one sleep shorter
TimedOut_Sooner(elapsed) == elapsed > (MaxWaitTime - PollSleep) * TicksPerSecond

TimedOut(elapsed) == elapsed > MaxWaitTime * TicksPerSecond

\* variant: the loop goes on when offset + limit equals total_results
LastPage_Strict(off, limit, total_results, batch_len) ==
    off + limit > total_results \/ batch_len = 0

LastPage(off, limit, total_results, batch_len) ==
    off + limit >= total_results \/ batch_len = 0

(***************************************************************************)
(* import_profiles_to_hubspot: what one chunk adds to the counters.        *)
(* An outcome is the tagged answer of the CRM to one bulk-create request.  *)
(***************************************************************************)
ChunkCounts(n, o) ==
    IF o.kind = "exception" THEN [created |-> 0, skipped |-> n]
    ELSE IF o.kind = "201" THEN [created |-> n, skipped |-> 0]
    ELSE IF o.kind = "207" THEN
        IF o.bad_json THEN [created |-> 0, skipped |-> n]
        ELSE IF o.bad_error_entry
             THEN [created |-> o.results, skipped |-> o.errors + n]
             ELSE [created |-> o.results, skipped |-> o.errors]
    ELSE [created |-> 0, skipped |-> n]

TotalBatches(m) == (m + (ChunkSize - 1)) \div ChunkSize

(***************************************************************************)
(* update_discovery_job_status: read, merge, write back.                   *)
(***************************************************************************)
Merge(f, g) == [k \in DOMAIN f \cup DOMAIN g |-> IF k \in DOMAIN g THEN g[k] ELSE f[k]]

\* variant: one key for every job
JobKey_Shared(job_id) == <<"discovery_job", JobId>>

JobKey(job_id) == <<"discovery_job", job_id>>

EmptyStore == [k \in {} |-> None]

\* json.dumps and json.loads of a flat object; the text is modelled by the
\* set of its members
Dumps(d) == {<<k, d[k]>> : k \in DOMAIN d}
Loads(text) == [k \in {m[1] : m \in text} |-> (CHOOSE m \in text : m[1] = k)[2]]

\* Redis: the keys whose time to live has not run out at time t
Visible(st, ex, t) == [k \in {x \in DOMAIN st : t < ex[x]} |-> st[k]]

TtlTicks == JobTtl * TicksPerSecond

\* variant: the write keeps the time to live the key already has
SetExpiry_KeepTtl(ex, key, t) ==
    IF key \in DOMAIN ex THEN ex ELSE Merge(ex, [k \in {key} |-> t + TtlTicks])

\* r.setex(job_key, 86400, ...): the key expires 86400 s after the write
SetExpiry(ex, key, t) == Merge(ex, [k \in {key} |-> t + TtlTicks])

\* variant: the record is always built anew
LoadJobData_Fresh(st, job_key, job_id) == [k \in {"job_id"} |-> job_id]

\* lines 118-122; st holds the keys r.get can see
LoadJobData(st, job_key, job_id) ==
    IF job_key \in DOMAIN st THEN Loads(st[job_key])
    ELSE [k \in {"job_id"} |-> job_id]

\* lines 125-127
StampAndMerge(job_data, status, kwargs, t) ==
    Merge(Merge(job_data, [k \in {"status", "updated_at"} |->
                             IF k = "status" THEN status ELSE t]),
          kwargs)

update_discovery_job_status(st, job_id, status, kwargs, t) ==
    LET job_key == JobKey(job_id)
        job_data == LoadJobData(st, job_key, job_id)
    IN  Merge(st, [k \in {job_key} |-> Dumps(StampAndMerge(job_data, status, kwargs, t))])

NoFields == [k \in {} |-> None]


(***************************************************************************)
(* What the vendor and the CRM may answer                                  *)
(***************************************************************************)
RequestDurations == {1 * TicksPerSecond, RequestTimeout * TicksPerSecond}

SubmitResponses ==
    [status : SubmitStatuses, has_id : BOOLEAN, transport_error : {FALSE}]
    \cup [status : {0}, has_id : {FALSE}, transport_error : {TRUE}]

NoResponse == [status |-> 0, has_id |-> FALSE, transport_error |-> FALSE]

PageLens == {0, PageLimit \div 2, PageLimit}
Totals == {PageLimit * k : k \in 0..MaxPages}

\* the 'error' member of a FAILED answer: absent, or the vendor's text
VendorErrors == {None, "<vendor error>", "quota exceeded"}

PollResponses ==
    [kind : {"IN_PROGRESS", "http_error", "transport_error"},
     data : {0}, total_results : {0}, error : {None}]
    \cup [kind : {"FAILED"}, data : {0}, total_results : {0}, error : VendorErrors]
    \cup [kind : {"page"}, data : PageLens, total_results : Totals, error : {None}]

NoPollAnswer == [kind |-> None, data |-> 0, total_results |-> 0, error |-> None]

NoPage == [offset |-> NotYet, data |-> 0, total_results |-> 0]

NoAnswer ==
    [kind |-> None, results |-> 0, errors |-> 0, bad_json |-> FALSE,
     bad_error_entry |-> FALSE]

CrmOutcomes(n) ==
    [kind : {"201", "other", "exception"}, results : {0}, errors : {0},
     bad_json : {FALSE}, bad_error_entry : {FALSE}]
    \cup [kind : {"207"}, results : {0}, errors : {0},
          bad_json : {TRUE}, bad_error_entry : {FALSE}]
    \cup {o \in [kind : {"207"}, results : {0, n - 10, n}, errors : {0, 10},
                 bad_json : {FALSE}, bad_error_entry : BOOLEAN] :
            /\ o.results >= 0
            /\ o.bad_error_entry => o.errors > 0}

(***************************************************************************)
(* Values of the vendor's JSON answers, tagged with their JSON type.  A    *)
(* text whose words matter (full_name) is kept as the sequence of its      *)
(* whitespace-separated words.  JNull is also Python's None.               *)
(***************************************************************************)
JNull == <<"null">>
JStr(s) == <<"str", s>>
JText(words) == <<"text", words>>
JNum(n) == <<"num", n>>
JList(items) == <<"list", items>>
JObj(fields) == <<"obj", fields>>

NoFieldsAtAll == [k \in {} |-> JNull]

IsObj(v) == v[1] = "obj"
IsList(v) == v[1] = "list"
IsString(v) == v[1] \in {"str", "text"}

\* bool(v)
Truthy(v) ==
    CASE v[1] = "null" -> FALSE
      [] v[1] = "str" -> v[2] # ""
      [] v[1] = "text" -> v[2] # <<>>
      [] v[1] = "num" -> v[2] # 0
      [] v[1] = "list" -> v[2] # <<>>
      [] v[1] = "obj" -> DOMAIN v[2] # {}

\* d.get(k, default) on the fields of an object
Get(d, k, default) == IF k \in DOMAIN d THEN d[k] ELSE default

\* d[k] = v
Put(d, k, v) == [x \in DOMAIN d \cup {k} |-> IF x = k THEN v ELSE d[x]]

\* str.lower() and str.capitalize() on the strings of the model
Lower(s) ==
    CASE s = "EMAIL" -> "email"
      [] s = "Phone" -> "phone"
      [] s = "Twitter" -> "twitter"
      [] OTHER -> s

Capitalize(w) ==
    CASE w = "jane" -> "Jane"
      [] w = "DOE" -> "Doe"
      [] OTHER -> w

(***************************************************************************)
(* _extract_contact_details of both classes.                              *)
(***************************************************************************)
\* the loop raises: contact_details is no list, a detail is no object, or
\* its type has no lower()
ExtractRaises(cd) ==
    \/ ~IsList(cd)
    \/ \E k \in 1..Len(cd[2]) :
          \/ ~IsObj(cd[2][k])
          \/ ~IsString(Get(cd[2][k][2], "type", JStr("")))

\* discovery_module.py 310-315, insightiq.py 274-275
StoreContact(im, contacts_so_far, contact_type, contact_value) ==
    IF im = "discovery_module"
    THEN IF contact_type \in {"email", "phone"}
         THEN Put(contacts_so_far, contact_type, contact_value)
         ELSE Put(contacts_so_far, contact_type \o "_url", contact_value)
    ELSE IF contact_type \notin DOMAIN contacts_so_far
         THEN Put(contacts_so_far, contact_type, contact_value)
         ELSE contacts_so_far

RECURSIVE ExtractFrom(_, _, _)
ExtractFrom(im, details, contacts_so_far) ==
    IF details = <<>> THEN contacts_so_far
    ELSE LET detail == Head(details)[2]
             contact_type == Lower(Get(detail, "type", JStr(""))[2])
             contact_value == Get(detail, "value", JStr(""))
         IN  ExtractFrom(im, Tail(details),
                 IF contact_type # "" /\ Truthy(contact_value)
                 THEN StoreContact(im, contacts_so_far, contact_type, contact_value)
                 ELSE contacts_so_far)

extract_contact_details(im, cd) == ExtractFrom(im, cd[2], NoFieldsAtAll)

(***************************************************************************)
(* _standardize_results of both classes.                                  *)
(***************************************************************************)
LocationKey(im) == IF im = "discovery_module" THEN "creator_location" ELSE "location"

\* the body of the try raises for this record
StdRaises(im, profile) ==
    \/ ~IsObj(profile)
    \/ ExtractRaises(Get(profile[2], "contact_details", JList(<<>>)))
    \/ /\ im = "discovery_module"
       /\ Truthy(Get(profile[2], "full_name", JText(<<>>)))
       /\ Get(profile[2], "full_name", JText(<<>>))[1] # "text"
    \/ ~IsObj(Get(profile[2], LocationKey(im), JObj(NoFieldsAtAll)))

\* discovery_module.py 275, insightiq.py 246
FollowerCount(im, p) ==
    IF im = "discovery_module"
    THEN IF Truthy(Get(p, "follower_count", JNull))
         THEN Get(p, "follower_count", JNull)
         ELSE Get(p, "subscriber_count", JNum(0))
    ELSE Get(p, "follower_count", JNum(0))

NameParts(full_name) ==
    IF Truthy(full_name)
    THEN [k \in 1..Len(full_name[2]) |-> Capitalize(full_name[2][k])]
    ELSE <<>>

StandardizeOne(im, profile, pf) ==
    LET p == profile[2]
        cd == extract_contact_details(im, Get(p, "contact_details", JList(<<>>)))
        location == Get(p, LocationKey(im), JObj(NoFieldsAtAll))[2]
        full_name == Get(p, "full_name", JText(<<>>))
        name_parts == NameParts(full_name)
    IN  IF im = "discovery_module"
        THEN Merge([profile_url |-> Get(p, "url", JStr("")),
                    handle |-> Get(p, "platform_username", JStr("")),
                    display_name |-> full_name,
                    first_name |-> IF name_parts # <<>> THEN JText(<<name_parts[1]>>)
                                   ELSE JText(<<>>),
                    last_name |-> IF Len(name_parts) > 1 THEN JText(Tail(name_parts))
                                  ELSE JText(<<>>),
                    platform |-> JStr(pf),
                    follower_count |-> FollowerCount(im, p),
                    engagement_rate |-> Get(p, "engagement_rate", JNum(0)),
                    bio |-> Get(p, "bio", JStr("")),
                    email |-> Get(cd, "email", JNull),
                    phone |-> Get(cd, "phone", JNull),
                    city |-> Get(location, "city", JNull),
                    state |-> Get(location, "state", JNull),
                    country |-> Get(location, "country", JNull),
                    audience_credibility |-> Get(p, "audience_credibility_category", JNull),
                    last_post_date |-> Get(p, "last_post_timestamp", JNull)],
                   [k \in DOMAIN cd \ {"email", "phone"} |-> cd[k]])
        ELSE [first_and_last_name |-> full_name,
              flagship_social_platform_handle |-> Get(p, "platform_username", JStr("")),
              instagram_handle |-> Get(p, "url", JStr("")),
              instagram_bio |-> Get(p, "introduction", JStr("")),
              instagram_followers |-> FollowerCount(im, p),
              average_engagement |-> Get(p, "engagement_rate", JNum(0)),
              email |-> Get(cd, "email", JNull),
              phone |-> Get(cd, "phone", JNull),
              tiktok_handle |-> Get(cd, "tiktok", JNull),
              youtube_profile_link |-> Get(cd, "youtube", JNull),
              facebook_profile_link |-> Get(cd, "facebook", JNull),
              patreon_link |-> Get(cd, "patreon", JNull),
              pinterest_profile_link |-> Get(cd, "pinterest", JNull),
              city |-> Get(location, "city", JNull),
              state |-> Get(location, "state", JNull),
              country |-> Get(location, "country", JNull),
              flagship_social_platform |-> JStr("instagram"),
              channel |-> JStr("Outbound"),
              channel_host_prospected |-> JStr("Phyllo"),
              funnel |-> JStr("Creator"),
              enrichment_status |-> JStr("pending")]

RECURSIVE StandardizeFrom(_, _, _, _)
RECURSIVE AfterRecordError(_, _, _, _)

\* variant: the first record that raises ends the loop
AfterRecordError_Stop(im, rest, pf, done) == done

\* except Exception: the warning is logged and the loop goes on
AfterRecordError(im, rest, pf, done) == StandardizeFrom(im, rest, pf, done)

StandardizeFrom(im, raws, pf, done) ==
    IF raws = <<>> THEN done
    ELSE IF StdRaises(im, Head(raws))
         THEN AfterRecordError(im, Tail(raws), pf, done)
         ELSE StandardizeFrom(im, Tail(raws), pf,
                              Append(done, StandardizeOne(im, Head(raws), pf)))

standardize_results(im, raws, pf) == StandardizeFrom(im, raws, pf, <<>>)

(***************************************************************************)
(* search_profiles of both classes: the parameters of the vendor request.  *)
(* Strings that the code strips are JText values over characters.          *)
(***************************************************************************)
UsaLocation == "cb8c4bd2-7661-4761-971a-c27322e2f209"

FIXED_PARAMS ==
    [specific_contact_details |->
         JList(<<JObj([type |-> JStr("EMAIL"), preference |-> JStr("MUST_HAVE")])>>),
     creator_language |-> JObj([code |-> JStr("en")]),
     creator_locations |-> JList(<<JStr(UsaLocation)>>),
     audience_locations |->
         JList(<<JObj([location_id |-> JStr(UsaLocation), percentage_value |-> JNum(30),
                       operator |-> JStr("GT")])>>),
     sort_by |-> JObj([field |-> JStr("FOLLOWER_COUNT"), order |-> JStr("DESCENDING")]),
     audience_credibility_category |->
         JList(<<JStr("EXCELLENT"), JStr("HIGH"), JStr("NORMAL")>>)]

\* platform -> work_platform_id
PLATFORM_CONFIGS ==
    [instagram |-> "9bb8913b-ddd9-430b-a66a-d74d846e6c66",
     youtube |-> "14d9ddf5-51c6-415e-bde6-f8ed36ad7054",
     tiktok |-> "de55aeec-0dc8-4119-bf90-16b3d1f0c987",
     facebook |-> "ad2fec62-2987-40a0-89fb-23485972598c"]

DefaultMaxResults == 500
MaxResultsCap == 4000
DefaultMinFollowers == 20000
DefaultMaxFollowers == 900000
MaxBioClauses == 14
ValidActions == {"AND", "OR", "NOT"}

\* the platform check at the head of search_profiles
SearchRaises(pf) == pf \notin DOMAIN PLATFORM_CONFIGS

\* variant: the requested value is sent as it is
ClampMaxResults_Unbounded(requested) == requested

\* min(requested, 4000)
ClampMaxResults(requested) ==
    IF requested < MaxResultsCap THEN requested ELSE MaxResultsCap

\* variant: every platform uses follower_count
RangeField_Follower(pf) == "follower_count"

RangeField(pf) == IF pf = "youtube" THEN "subscriber_count" ELSE "follower_count"

RangeValue(follower_filter) ==
    JObj([min |-> Get(follower_filter, "min", JNum(DefaultMinFollowers)),
          max |-> Get(follower_filter, "max", JNum(DefaultMaxFollowers))])

AddLookalike(p, uf) ==
    LET l == BuildLookalike(
                 [lookalike_type |-> Get(uf, "lookalike_type", JStr(None))[2],
                  lookalike_username |-> Get(uf, "lookalike_username", JText(<<>>))[2]])
    IN  IF l.kind = None THEN p ELSE Put(p, l.kind, JText(l.handle))

OptionalKeys(im) ==
    IF im = "discovery_module" THEN {"creator_interests", "hashtags"}
    ELSE {"creator_interests", "audience_interests", "hashtags"}

AddOptional(im, p, uf) ==
    LET copied == {k \in OptionalKeys(im) : k \in DOMAIN uf /\ Truthy(uf[k])}
    IN  [x \in DOMAIN p \cup copied |-> IF x \in copied THEN uf[x] ELSE p[x]]

\* (user_filters.get('bio_phrase') or '').strip()
PlainPhrase(uf) ==
    LET v == Get(uf, "bio_phrase", JNull)
    IN  IF Truthy(v) THEN Strip(v[2]) ELSE <<>>

\* user_filters.get('bio_phrase_advanced') or []
AdvancedArg(uf) ==
    LET v == Get(uf, "bio_phrase_advanced", JNull)
    IN  IF Truthy(v) THEN v ELSE JList(<<>>)

\* the condition of the list comprehension
ValidClause(e) ==
    /\ IsObj(e)
    /\ Strip(Get(e[2], "bio_phrase", JText(<<>>))[2]) # <<>>
    /\ Get(e[2], "action", JNull)[1] = "str"
    /\ Get(e[2], "action", JNull)[2] \in ValidActions

CleanClause(e) ==
    JObj([bio_phrase |-> JText(Strip(e[2]["bio_phrase"][2])), action |-> e[2]["action"]])

\* s[:n]
Take(s, n) == SubSeq(s, 1, IF Len(s) < n THEN Len(s) ELSE n)

Cleaned(entries) ==
    LET valid == SelectSeq(entries, ValidClause)
    IN  Take([k \in 1..Len(valid) |-> CleanClause(valid[k])], MaxBioClauses)

AddAdvanced(p, entries) ==
    IF Cleaned(entries) # <<>> THEN Put(p, "bio_phrase_advanced", JList(Cleaned(entries)))
    ELSE p

AddPlain(p, bio_phrase) ==
    IF bio_phrase # <<>> THEN Put(p, "bio_phrase", JText(bio_phrase)) ELSE p

\* variant: the plain phrase is sent besides the advanced clauses
AddBio_Both(im, p, uf) ==
    IF im = "discovery_module" THEN p
    ELSE LET bio_phrase_advanced == AdvancedArg(uf)
             with_clauses == IF Truthy(bio_phrase_advanced) /\ IsList(bio_phrase_advanced)
                             THEN AddAdvanced(p, bio_phrase_advanced[2])
                             ELSE p
         IN  AddPlain(with_clauses, PlainPhrase(uf))

\* the bio phrase block of app/services; discovery_module has none
AddBio(im, p, uf) ==
    IF im = "discovery_module" THEN p
    ELSE LET bio_phrase_advanced == AdvancedArg(uf)
         IN  IF Truthy(bio_phrase_advanced) /\ IsList(bio_phrase_advanced)
             THEN AddAdvanced(p, bio_phrase_advanced[2])
             ELSE AddPlain(p, PlainPhrase(uf))

\* the parameters handed to _start_job; fixed is the class attribute
BuildParameters(im, fixed, pf, filters_arg) ==
    LET uf == IF Truthy(filters_arg) THEN filters_arg[2] ELSE NoFieldsAtAll
        p1 == Put(fixed, "work_platform_id", JStr(PLATFORM_CONFIGS[pf]))
        p2 == Put(p1, "max_results",
                  JNum(ClampMaxResults(Get(uf, "max_results", JNum(DefaultMaxResults))[2])))
        follower_filter == Get(uf, "follower_count", JObj(NoFieldsAtAll))[2]
        p3 == Put(p2, RangeField(pf), RangeValue(follower_filter))
        p4 == AddLookalike(p3, uf)
        p5 == AddOptional(im, p4, uf)
    IN  AddBio(im, p5, uf)

\* variant: parameters = self.FIXED_PARAMS, the assignments reach the attribute
FixedParamsAfter_Alias(fixed, built) == built

\* parameters = self.FIXED_PARAMS.copy(): the assignments go to the copy
FixedParamsAfter(fixed, built) == fixed

(***************************************************************************)
(* State                                                                   *)
(***************************************************************************)
VARIABLES
    caller,         \* how the code is run: Celery worker, inline call of the task, direct call of the client
    impl,           \* which InsightIQDiscovery class is used
    reqTicks,       \* duration of one HTTP request in this run
    user_filters,   \* the FilterSpec
    store,          \* Redis: job key -> JSON text of the job data
    expires,        \* Redis: job key -> time at which the key expires
    pc,             \* position of the run
    err,            \* the exception being raised
    result,         \* the summary returned by the task
    now,            \* ticks since the task started
    submitAt,       \* when the submission request was sent
    start_time,     \* _fetch_results: start_time
    offset,         \* _fetch_results: offset
    all_results,    \* _fetch_results: len(all_results)
    poll_count,     \* _fetch_results: poll_count
    submitCount,    \* submission requests sent
    submitResp,     \* the answer to the submission request
    inProgress,     \* polls answered IN_PROGRESS
    lastPage,       \* _fetch_results: offset, batch_results and total_results of the page just received
    pollsSent,      \* poll requests sent
    returnedAt,     \* when _fetch_results returned its list
    pollAnswer,     \* the answer received to the latest poll request
    profiles,       \* len(profiles) in the task
    i,              \* import loop: i
    created_count,  \* import loop: created_count
    skipped_count,  \* import loop: skipped_count
    crmRequests,    \* bulk-create requests sent
    delays,         \* inter-batch sleeps taken
    chunks,         \* the slices contacts[i:i+100] sent so far, as <<from, size>>
    response,       \* import loop: the answer to the latest bulk-create request
    statusLog,      \* the statuses this run wrote to the job record
    errorLen,       \* the length of the error text the task stored in the record, 0 without one
    platform,         \* _standardize_results: platform
    raw_results,      \* _standardize_results: raw_results
    standardized,     \* _standardize_results: the list returned
    contact_details,  \* _extract_contact_details: contact_details
    contacts,         \* _extract_contact_details: the dict returned
    updateLog,        \* the calls of update_discovery_job_status made so far
    got,              \* the answer to the latest read of a job record
    runJob,           \* concurrent runs of the task: run -> job_id
    runPc,            \* run -> position of the run
    runData,          \* run -> update_discovery_job_status: job_data
    runFound,         \* run -> len(profiles)
    writers,          \* job id -> the runs that wrote its record
    runLog,           \* run -> the updates it has written, in order
    search_platform,  \* search_profiles: platform
    search_filters,   \* search_profiles: user_filters as passed
    parameters,       \* search_profiles: the parameters handed to _start_job
    fixed_params      \* the class attribute FIXED_PARAMS

configVars == <<caller, impl, reqTicks>>
clientVars == <<submitAt, start_time, offset, all_results, poll_count, submitCount,
                submitResp, inProgress, lastPage, pollsSent, returnedAt, pollAnswer>>
importVars == <<profiles, i, created_count, skipped_count, crmRequests, delays, chunks,
               response>>
recordVars == <<store, expires, statusLog, errorLen>>
stdVars == <<platform, raw_results, standardized>>
extractVars == <<contact_details, contacts>>
storeVars == <<updateLog, got>>
concVars == <<runJob, runPc, runData, runFound, writers, runLog>>
requestVars == <<search_platform, search_filters, parameters, fixed_params>>
unitVars == <<stdVars, extractVars, storeVars, concVars, requestVars>>
vars == <<configVars, user_filters, clientVars, importVars, recordVars, pc, err, result, now,
          unitVars>>

QueuedStore == [k \in {JobKey(JobId)} |-> Dumps([job_id |-> JobId, status |-> "queued"])]

\* the keys present at the start were written just before it
LeftExpiry(st) == [k \in DOMAIN st |-> NotYet + TtlTicks]

\* the functions called on their own are not running
StdIdle ==
    /\ platform = None
    /\ raw_results = <<>>
    /\ standardized = <<>>

ExtractIdle ==
    /\ contact_details = JNull
    /\ contacts = NoFieldsAtAll

NoRead == [job_id |-> None, found |-> FALSE]

StoreIdle ==
    /\ updateLog = <<>>
    /\ got = NoRead

ConcIdle ==
    /\ runJob = <<>>
    /\ runPc = <<>>
    /\ runData = <<>>
    /\ runFound = <<>>
    /\ writers = <<>>
    /\ runLog = <<>>

RequestIdle ==
    /\ search_platform = None
    /\ search_filters = JNull
    /\ parameters = JNull
    /\ fixed_params = FIXED_PARAMS

UnitIdle == StdIdle /\ ExtractIdle /\ StoreIdle /\ ConcIdle /\ RequestIdle

InitLocals ==
    /\ err = NoError
    /\ result = None
    /\ now = 0
    /\ submitAt = NotYet
    /\ start_time = 0
    /\ offset = 0
    /\ all_results = 0
    /\ poll_count = 0
    /\ submitCount = 0
    /\ submitResp = NoResponse
    /\ inProgress = 0
    /\ pollsSent = 0
    /\ lastPage = NoPage
    /\ returnedAt = NotYet
    /\ pollAnswer = NoPollAnswer
    /\ profiles = 0
    /\ i = 0
    /\ created_count = 0
    /\ skipped_count = 0
    /\ crmRequests = 0
    /\ delays = 0
    /\ chunks = <<>>
    /\ response = NoAnswer
    /\ statusLog = <<>>

InitRun ==
    /\ reqTicks \in RequestDurations
    /\ user_filters \in FilterSpecs
    /\ InitLocals
    /\ UnitIdle

InitCaller ==
    /\ caller \in Callers
    /\ impl \in Impls
    /\ caller # "direct" => impl = "discovery_module"
    /\ pc = IF caller = "direct" THEN "submit" ELSE "start"

Init ==
    /\ InitCaller
    /\ InitRun
    /\ store \in {EmptyStore, QueuedStore}
    /\ caller = "direct" => store = EmptyStore
    /\ expires = LeftExpiry(store)
    /\ errorLen = 0

(***************************************************************************)
(* The worker's hard time limit: the process running the task is killed    *)
(* when the task has run for task_time_limit seconds.  A step that ends    *)
(* exactly at the limit races with the kill.                               *)
(***************************************************************************)
KillChoices(t) ==
    IF caller = "worker" /\ t > TaskTimeLimit * TicksPerSecond THEN {TRUE}
    ELSE IF caller = "worker" /\ t = TaskTimeLimit * TicksPerSecond THEN {TRUE, FALSE}
    ELSE {FALSE}

Killed ==
    /\ pc' = "killed"
    /\ now' = TaskTimeLimit * TicksPerSecond

(***************************************************************************)
(* An exception leaves the client: the task's except clause handles it,    *)
(* a direct caller receives it.                                            *)
(***************************************************************************)
\* variant: the error is noted and the request is made again
Raise_Retry(e) ==
    /\ err' = e
    /\ pc' = pc

Raise(e) ==
    /\ err' = e
    /\ pc' = IF caller = "direct" THEN "raised" ELSE "handle_error"

WriteStatus(status, kwargs) ==
    /\ store' = update_discovery_job_status(Visible(store, expires, now), JobId, status,
                                            kwargs, now)
    /\ expires' = SetExpiry(Visible(expires, expires, now), JobKey(JobId), now)
    /\ statusLog' = Append(statusLog, status)
    /\ errorLen' \in
           IF "error" \in DOMAIN kwargs
           THEN {PersistedLen(n) : n \in MessageLens(kwargs.error)}
           ELSE IF JobKey(JobId) \in DOMAIN Visible(store, expires, now) THEN {errorLen}
           ELSE {0}


(***************************************************************************)
(* discover_instagram_profiles                                             *)
(***************************************************************************)
FirstStatus == "discovering"
\* variant: line 77 writes the final status
SearchDoneStatus_Completed == "completed"

SearchDoneStatus == "importing"
ImportDoneStatus == "completed"
\* variant: the except clause leaves the status it found
ErrorStatus_Discovering == "discovering"

ErrorStatus == "failed"

\* line 46: the first statement of the try block
MarkDiscovering ==
    /\ pc = "start"
    /\ WriteStatus(FirstStatus, NoFields)
    /\ pc' = "validate"
    /\ UNCHANGED <<unitVars, configVars, user_filters, clientVars, importVars, err, result, now>>

\* lines 48-69: read the credentials, validate the lookalike, create the client
Validate ==
    /\ pc = "validate"
    /\ \E creds \in BOOLEAN :
         LET e == ValidationError(creds, user_filters)
         IN  IF e # NoError THEN Raise(e)
             ELSE /\ pc' = "submit"
                  /\ err' = err
    /\ UNCHANGED <<unitVars, configVars, user_filters, clientVars, importVars, recordVars, result, now>>

\* search_profiles up to and including _start_job.  The filters are not read
\* again once the request parameters are built from them.
FiltersRead == [lookalike_type |-> None, lookalike_username |-> <<>>]

StartJob ==
    /\ pc = "submit"
    /\ \E resp \in SubmitResponses :
         LET e == StartJobError(impl, resp)
         IN  /\ submitResp' = resp
             /\ IF e # NoError THEN Raise(e)
                ELSE /\ pc' = "poll"
                     /\ err' = err
    /\ submitAt' = now
    /\ submitCount' = submitCount + 1
    /\ user_filters' = FiltersRead
    /\ now' = now + reqTicks
    /\ start_time' = now'
    /\ UNCHANGED <<unitVars, configVars, offset, all_results, poll_count, inProgress, lastPage,
                   pollsSent, returnedAt, pollAnswer, importVars, recordVars, result>>

\* _fetch_results: one iteration of the while loop
\* variant: the loop waits on after the deadline
PollTimeout_Waits ==
    /\ UNCHANGED <<pc, err>>
    /\ UNCHANGED <<now, offset, all_results, poll_count, inProgress, lastPage,
                   pollsSent, returnedAt, pollAnswer>>

PollTimeout ==
    /\ Raise(ErrTimeout)
    /\ UNCHANGED <<now, offset, all_results, poll_count, inProgress, lastPage,
                   pollsSent, returnedAt, pollAnswer>>

PollKilledInRequest ==
    /\ Killed
    /\ poll_count' = poll_count + 1
    /\ pollsSent' = pollsSent + 1
    /\ UNCHANGED <<err, offset, all_results, inProgress, lastPage, returnedAt>>

\* variant: the loop polls again at once
AfterSleep_NoSleep(t) == t

\* time.sleep(60) before the next poll
AfterSleep(t) == t + PollSleep * TicksPerSecond

PollInProgress(t) ==
    /\ poll_count' = poll_count + 1
    /\ pollsSent' = pollsSent + 1
    /\ inProgress' = inProgress + 1
    /\ \E killed \in KillChoices(AfterSleep(t)) :
         IF killed THEN Killed
         ELSE /\ now' = AfterSleep(t)
              /\ pc' = pc
    /\ UNCHANGED <<err, offset, all_results, lastPage, returnedAt>>

PollRaises(t, e) ==
    /\ poll_count' = poll_count + 1
    /\ pollsSent' = pollsSent + 1
    /\ now' = t
    /\ Raise(e)
    /\ UNCHANGED <<offset, all_results, inProgress, lastPage, returnedAt>>

PollPage(t, resp) ==
    /\ poll_count' = poll_count + 1
    /\ pollsSent' = pollsSent + 1
    /\ now' = t
    /\ all_results' = all_results + resp.data
    /\ lastPage' = [offset |-> offset, data |-> resp.data,
                    total_results |-> resp.total_results]
    /\ IF LastPage(offset, PageLimit, resp.total_results, resp.data)
       THEN /\ pc' = "fetched"
            /\ returnedAt' = t
            /\ offset' = offset
       ELSE /\ pc' = pc
            /\ returnedAt' = returnedAt
            /\ offset' = offset + PageLimit
    /\ UNCHANGED <<err, inProgress>>

\* _fetch_results: one iteration of the while loop, the vendor answering
\* with one of responses
PollFrom(responses) ==
    /\ pc = "poll"
    /\ IF TimedOut(now - start_time) THEN PollTimeout
       ELSE \E resp \in responses, killed \in KillChoices(now + reqTicks) :
              /\ pollAnswer' = IF killed THEN pollAnswer ELSE resp
              /\ IF killed THEN PollKilledInRequest
                 ELSE IF resp.kind = "IN_PROGRESS" THEN PollInProgress(now + reqTicks)
                 ELSE IF resp.kind = "FAILED"
                      THEN PollRaises(now + reqTicks, JobFailedMessage(resp.error))
                 ELSE IF resp.kind = "http_error"
                      THEN PollRaises(now + reqTicks, ErrFetchStatus)
                 ELSE IF resp.kind = "transport_error"
                      THEN PollRaises(now + reqTicks, ErrFetchTransport)
                 ELSE PollPage(now + reqTicks, resp)
    /\ UNCHANGED <<unitVars, configVars, user_filters, submitAt, start_time, submitCount, submitResp,
                   importVars, recordVars, result>>

Poll == PollFrom(PollResponses)

\* _fetch_results returns and standardize_results runs: a malformed record
\* is skipped.  The locals of _fetch_results end with its frame.
Standardize ==
    /\ pc = "fetched"
    /\ \E malformed \in 0..MaxMalformed :
         /\ malformed <= all_results
         /\ profiles' = all_results - malformed
    /\ pc' = IF caller = "direct" THEN "returned" ELSE "mark_importing"
    /\ start_time' = 0
    /\ offset' = 0
    /\ all_results' = 0
    /\ poll_count' = 0
    /\ lastPage' = NoPage
    /\ pollAnswer' = NoPollAnswer
    /\ UNCHANGED <<unitVars, configVars, user_filters, submitAt, submitCount, submitResp, inProgress,
                   pollsSent, returnedAt, i, created_count, skipped_count, crmRequests,
                   delays, chunks, response, recordVars, err, result, now>>

\* variant: the import starts without the record being marked
MarkImporting_Unmarked ==
    /\ pc = "mark_importing"
    /\ pc' = "import_start"
    /\ UNCHANGED <<unitVars, configVars, user_filters, clientVars, importVars, recordVars, err,
                   result, now>>

\* line 77
MarkImporting ==
    /\ pc = "mark_importing"
    /\ WriteStatus(SearchDoneStatus, [profiles_found |-> profiles])
    /\ pc' = "import_start"
    /\ UNCHANGED <<unitVars, configVars, user_filters, clientVars, importVars, err, result, now>>

\* import_profiles_to_hubspot, lines 146-211: read the key, build the contacts
\* lines 146-150 (the key) and 156-204 (the contacts; only the slice of the
\* bio at line 182 can raise on a standardized profile)
BuildContactsError(key, bio_is_text) ==
    IF ~key THEN ErrHubspotKey
    ELSE IF ~bio_is_text THEN ErrBioType
    ELSE NoError

ImportStart ==
    /\ pc = "import_start"
    /\ \E key \in BOOLEAN, bio_is_text \in {b \in BOOLEAN : profiles = 0 => b} :
         IF BuildContactsError(key, bio_is_text) # NoError
         THEN /\ Raise(BuildContactsError(key, bio_is_text))
              /\ UNCHANGED <<i, created_count, skipped_count>>
         ELSE /\ pc' = "import_loop"
              /\ err' = err
              /\ i' = 0
              /\ created_count' = 0
              /\ skipped_count' = 0
    /\ UNCHANGED <<unitVars, configVars, user_filters, clientVars, profiles, crmRequests, delays,
                   chunks, response, recordVars, result, now>>

\* len(contacts[i:i+100])
BatchLen(m, k) == IF m - k < ChunkSize THEN m - k ELSE ChunkSize

\* variant: the delay follows every chunk
DelayAfter_Always(k, m) == TRUE

\* line 261: if i + 100 < len(contacts)
DelayAfter(k, m) == k + ChunkSize < m

\* import_profiles_to_hubspot: one iteration of the for loop
ImportChunk ==
    /\ pc = "import_loop"
    /\ i < profiles
    /\ crmRequests' = crmRequests + 1
    /\ chunks' = Append(chunks, <<i, BatchLen(profiles, i)>>)
    /\ \E o \in CrmOutcomes(BatchLen(profiles, i)), killed \in KillChoices(now + reqTicks) :
         IF killed
         THEN /\ Killed
              /\ UNCHANGED <<i, created_count, skipped_count, delays, response>>
         ELSE LET c == ChunkCounts(BatchLen(profiles, i), o)
                  t == now + reqTicks
              IN  /\ response' = o
                  /\ created_count' = created_count + c.created
                  /\ skipped_count' = skipped_count + c.skipped
                  /\ i' = i + ChunkSize
                  /\ IF DelayAfter(i, profiles)
                     THEN /\ delays' = delays + 1
                          /\ \E k2 \in KillChoices(t + InterBatchDelayTicks) :
                               IF k2 THEN Killed
                               ELSE /\ now' = t + InterBatchDelayTicks
                                    /\ pc' = pc
                     ELSE /\ delays' = delays
                          /\ now' = t
                          /\ pc' = pc
    /\ UNCHANGED <<unitVars, configVars, user_filters, clientVars, profiles, recordVars, err, result>>

\* lines 83-98
MarkCompleted ==
    /\ pc = "import_loop"
    /\ i >= profiles
    /\ WriteStatus(ImportDoneStatus,
                   [profiles_found |-> profiles,
                    new_contacts_created |-> created_count,
                    duplicates_skipped |-> skipped_count])
    /\ result' = [status |-> "completed", profiles_found |-> profiles,
                  new_contacts |-> created_count, duplicates |-> skipped_count]
    /\ pc' = "returned"
    /\ UNCHANGED <<unitVars, configVars, user_filters, clientVars, importVars, err, now>>

\* lines 100-103
\* variant: the failed status is written without the error text
ErrorFields_NoText(e) == NoFields

ErrorFields(e) == [error |-> e]

HandleError ==
    /\ pc = "handle_error"
    /\ WriteStatus(ErrorStatus, ErrorFields(err))
    /\ pc' = "raised"
    /\ UNCHANGED <<unitVars, configVars, user_filters, clientVars, importVars, err, result, now>>

Next ==
    \/ MarkDiscovering
    \/ Validate
    \/ StartJob
    \/ Poll
    \/ Standardize
    \/ MarkImporting
    \/ ImportStart
    \/ ImportChunk
    \/ MarkCompleted
    \/ HandleError

Spec == Init /\ [][Next]_vars

Ended == pc \in {"returned", "raised", "killed"}


(***************************************************************************)
(* The task invoked again with the job id of an earlier run: the store     *)
(* holds the record that run left.  Its updated_at lies before this run.   *)
(***************************************************************************)
LeftCompleted ==
    [k \in {"job_id", "status", "updated_at", "profiles_found",
            "new_contacts_created", "duplicates_skipped"} |->
        IF k = "job_id" THEN JobId
        ELSE IF k = "status" THEN "completed"
        ELSE IF k = "updated_at" THEN NotYet
        ELSE IF k = "profiles_found" THEN PageLimit
        ELSE IF k = "new_contacts_created" THEN PageLimit
        ELSE 0]

LeftFailed ==
    [k \in {"job_id", "status", "updated_at", "error"} |->
        IF k = "job_id" THEN JobId
        ELSE IF k = "status" THEN "failed"
        ELSE IF k = "updated_at" THEN NotYet
        ELSE ErrJobFailed]

LeftStores == {[k \in {JobKey(JobId)} |-> Dumps(rec)] : rec \in {LeftCompleted, LeftFailed}}

InitRerun ==
    /\ InitCaller
    /\ caller # "direct"
    /\ InitRun
    /\ store \in LeftStores
    /\ expires = LeftExpiry(store)
    /\ errorLen \in IF "error" \in DOMAIN Loads(store[JobKey(JobId)])
                    THEN MessageLens(ErrJobFailed) ELSE {0}

SpecRerun == InitRerun /\ [][Next]_vars

(***************************************************************************)
(* State functions used by the properties                                  *)
(***************************************************************************)
HasRecord == JobKey(JobId) \in DOMAIN Visible(store, expires, now)
Record == Loads(store[JobKey(JobId)])
Status == IF HasRecord THEN Record["status"] ELSE None
Terminal(status) == status \in {"completed", "failed"}
Field(rec, k) == IF k \in DOMAIN rec THEN rec[k] ELSE None
ImportReturned == pc = "import_loop" /\ i >= profiles
Deadline == MaxWaitTime * TicksPerSecond


(***************************************************************************)
(* The records SpecRerun starts from are records a run of Spec leaves      *)
(* (up to the time base of updated_at).                                    *)
(***************************************************************************)
SameButTime(rec, left) ==
    /\ DOMAIN rec = DOMAIN left
    /\ \A k \in DOMAIN rec \ {"updated_at"} : rec[k] = left[k]

LeavesCompleted == Ended /\ HasRecord /\ SameButTime(Record, LeftCompleted)
LeavesFailed == Ended /\ HasRecord /\ SameButTime(Record, LeftFailed)

(***************************************************************************)
(* C1: when the importer returns, created + skipped equals the number of   *)
(* profiles it was given, whatever the CRM answered to each chunk.         *)
(***************************************************************************)
C1_CountersCoverAll ==
    ImportReturned => created_count + skipped_count = profiles

(***************************************************************************)
(* C2: each iteration of the import loop leaves both counters at least as  *)
(* large as before and raises their sum by exactly the size of the chunk   *)
(* it handled, whichever branch handled the response.                      *)
(***************************************************************************)
C2_ChunkCountedOnce ==
    [][i' > i =>
        /\ created_count' >= created_count
        /\ skipped_count' >= skipped_count
        /\ created_count' + skipped_count'
             = created_count + skipped_count + BatchLen(profiles, i)]_vars

(***************************************************************************)
(* C3: a profile list is returned only within 600 s of the moment the      *)
(* submission request was sent.                                            *)
(***************************************************************************)
C3_ReturnWithinDeadline ==
    returnedAt # NotYet => returnedAt - submitAt <= Deadline

(***************************************************************************)
(* C4: a task run in which every answered poll said IN_PROGRESS ends with  *)
(* the record failed with the timeout message, the error raised to the     *)
(* caller and no bulk-create request sent.                                 *)
(***************************************************************************)
OnlyInProgress ==
    /\ inProgress > 0
    /\ returnedAt = NotYet
    /\ lastPage = NoPage
    /\ err \in {NoError, ErrTimeout}

C4_TimeoutMarksFailed ==
    (caller # "direct" /\ Ended /\ OnlyInProgress) =>
        /\ pc = "raised"
        /\ Status = "failed"
        /\ Field(Record, "error") = ErrTimeout
        /\ crmRequests = 0

(***************************************************************************)
(* C5: the poll loop ends with success exactly at the first results page   *)
(* with offset + limit >= total_results or no data, judged by that page's  *)
(* own total_results; after any other results page the loop goes on at     *)
(* offset + limit; every poll was answered IN_PROGRESS or with one of the  *)
(* pages at offsets 0, limit, 2*limit, ..., and none is sent after the     *)
(* last page.                                                              *)
(***************************************************************************)
C5_PollLoop ==
    /\ pc = "fetched" =>
          /\ lastPage # NoPage
          /\ lastPage.offset + PageLimit >= lastPage.total_results \/ lastPage.data = 0
          /\ offset = lastPage.offset
          /\ pollsSent = inProgress + (offset \div PageLimit) + 1
    /\ (pc = "poll" /\ lastPage # NoPage) =>
          /\ lastPage.offset + PageLimit < lastPage.total_results
          /\ lastPage.data > 0
          /\ offset = lastPage.offset + PageLimit
          /\ pollsSent = inProgress + (offset \div PageLimit)
    /\ (pc = "poll" /\ lastPage = NoPage) => offset = 0 /\ pollsSent = inProgress

C5_StopAtFirstLastPage ==
    /\ []C5_PollLoop
    /\ [][returnedAt # NotYet => pollsSent' = pollsSent]_vars

C5_Witness ==
    /\ pc = "fetched"
    /\ inProgress > 0
    /\ lastPage.offset = 2 * PageLimit
    /\ lastPage.total_results < lastPage.offset


(***************************************************************************)
(* C6: one submission per search; a 200 or 202 answer carrying a job id    *)
(* starts polling, any other answer raises and no poll is sent, for both   *)
(* client classes.                                                         *)
(***************************************************************************)
SubmitErrors == {ErrStartFailed, ErrNoJobId, ErrConnect}

C6_SubmitOnceAcceptOrFatal ==
    /\ submitCount <= 1
    /\ submitCount = 1 =>
         IF ~submitResp.transport_error /\ submitResp.status \in {200, 202}
            /\ submitResp.has_id
         THEN err \notin SubmitErrors
         ELSE err \in SubmitErrors /\ pollsSent = 0

(***************************************************************************)
(* C7: the task sends no vendor request for a FilterSpec in which exactly  *)
(* one of lookalike type and (stripped) lookalike handle is set.           *)
(***************************************************************************)
Inconsistent(f) ==
    (f.lookalike_type # None) # (Strip(f.lookalike_username) # <<>>)

C7_InconsistentLookalikeRejected ==
    [][(caller # "direct" /\ Inconsistent(user_filters)) =>
          submitCount' = submitCount]_vars

(***************************************************************************)
(* C8: when the lookalike validation fails, the error goes to the except   *)
(* clause, the record ends failed with the validation message in its error *)
(* field, nothing is returned, and no vendor or CRM request is sent.       *)
(***************************************************************************)
C8_ValidationFailure ==
    err \in ValidationErrors =>
        /\ pc \in {"handle_error", "raised"}
        /\ submitCount = 0 /\ pollsSent = 0 /\ crmRequests = 0
        /\ result = None
        /\ pc = "raised" =>
              /\ Status = "failed"
              /\ Field(Record, "error") = err

C8_Witness ==
    /\ pc = "raised"
    /\ err = ErrLookalikeUsername
    /\ Status = "failed"

(***************************************************************************)
(* C9: a record whose status is completed or failed keeps that status,     *)
(* also when the task is invoked again with the same job id.               *)
(***************************************************************************)
C9_TerminalIsFinal ==
    [][Terminal(Status) => Status' = Status]_vars

(***************************************************************************)
(* C10: the statuses a run writes are, in order, discovering, importing,   *)
(* completed, possibly cut short by failed as the last write; a run that   *)
(* returns a summary wrote all three.                                      *)
(***************************************************************************)
StatusOrders ==
    {<<>>, <<"discovering">>, <<"discovering", "failed">>,
     <<"discovering", "importing">>, <<"discovering", "importing", "failed">>,
     <<"discovering", "importing", "completed">>}

C10_StatusOrder ==
    /\ statusLog \in StatusOrders
    /\ (caller # "direct" /\ pc = "returned") =>
          statusLog = <<"discovering", "importing", "completed">>
    /\ (caller # "direct" /\ pc = "raised") =>
          statusLog[Len(statusLog)] = "failed"
    /\ statusLog # <<>> => Status = statusLog[Len(statusLog)]

C10_Witness ==
    /\ pc = "returned"
    /\ statusLog = <<"discovering", "importing", "completed">>
    /\ created_count > 0 /\ skipped_count > 0

C10_WitnessFailedLate ==
    statusLog = <<"discovering", "importing", "failed">>

(***************************************************************************)
(* C11: the task returns a summary only with completed as the last status  *)
(* written; it raises only with failed as the last status written and the  *)
(* error's text in the record; an error raised by the submission, a poll,  *)
(* the poll timeout or a vendor FAILED answer is persisted as failed and   *)
(* raised again to the caller.                                             *)
(***************************************************************************)
JobLevelErrors ==
    {ErrStartFailed, ErrNoJobId, ErrConnect, ErrTimeout, ErrFetchStatus,
     ErrFetchTransport} \cup {JobFailedMessage(e) : e \in VendorErrors}

LastWritten == statusLog[Len(statusLog)]

C11_OutcomeMatchesRecord ==
    caller # "direct" =>
        /\ pc # "returned" => result = None
        /\ pc = "returned" =>
              /\ LastWritten = "completed"
              /\ Status = "completed"
              /\ result.status = "completed"
              /\ result.profiles_found = Field(Record, "profiles_found")
        /\ pc = "raised" =>
              /\ err # NoError
              /\ LastWritten = "failed"
              /\ Status = "failed"
              /\ Field(Record, "error") = err
        /\ err \in JobLevelErrors =>
              /\ pc \in {"handle_error", "raised"}
              /\ crmRequests = 0
        /\ pc = "handle_error" => err # NoError

C11_Witness ==
    /\ caller # "direct"
    /\ pc = "raised"
    /\ err = ErrJobFailed
    /\ Status = "failed"
    /\ Field(Record, "error") = ErrJobFailed

C11_WitnessTimeout ==
    /\ caller = "inline"
    /\ pc = "raised"
    /\ err = ErrTimeout
    /\ LastWritten = "failed"

(***************************************************************************)
(* C12: after the vendor search has handed over its results, the run ends  *)
(* completed whatever was wrong with single raw records or with single CRM *)
(* chunks: with the CRM key configured, a run that is not killed neither   *)
(* raises nor writes failed once the results are in.                       *)
(***************************************************************************)
SearchSucceeded == returnedAt # NotYet

C12_RecordErrorsAbsorbed ==
    (caller # "direct" /\ SearchSucceeded /\ err # ErrHubspotKey) =>
        /\ pc \notin {"handle_error", "raised"}
        /\ HasRecord => Status # "failed"
        /\ pc = "returned" => Status = "completed"

\* what the code does absorb: a run that reached the import loop ends
\* completed or is killed
C12_ChunkErrorsAbsorbed ==
    (caller # "direct" /\ pc \in {"import_loop", "returned"}) =>
        /\ err = NoError
        /\ Status = IF pc = "returned" THEN "completed" ELSE "importing"

(***************************************************************************)
(* C13: the importer sends its M profiles as ceil(M / 100) requests, in    *)
(* order, none larger than 100, every profile in exactly one of them; a    *)
(* chunk that fails does not stop the later ones; the 0.5 s delay is taken *)
(* once between two consecutive chunks and not after the last.             *)
(***************************************************************************)
CeilDiv(m, d) == IF m % d = 0 THEN m \div d ELSE (m \div d) + 1

C13_ChunksCoverInOrder ==
    /\ Len(chunks) = crmRequests
    /\ \A k \in 1..Len(chunks) :
          /\ chunks[k][1] = IF k = 1 THEN 0 ELSE chunks[k - 1][1] + chunks[k - 1][2]
          /\ chunks[k][2] \in 1..ChunkSize
          /\ chunks[k][1] + chunks[k][2] <= profiles
          /\ k < Len(chunks) => chunks[k][2] = ChunkSize
    /\ pc = "import_loop" =>
          /\ err = NoError
          /\ delays = IF i < profiles THEN Len(chunks)
                      ELSE IF chunks = <<>> THEN 0 ELSE Len(chunks) - 1
    /\ delays <= Len(chunks)
    /\ ImportReturned =>
          /\ Len(chunks) = CeilDiv(profiles, 100)
          /\ profiles > 0 =>
                chunks[Len(chunks)][1] + chunks[Len(chunks)][2] = profiles

C13_Witness ==
    /\ ImportReturned
    /\ profiles = 2 * ChunkSize + (ChunkSize \div 2)
    /\ Len(chunks) = 3
    /\ delays = 2
    /\ skipped_count >= 2 * ChunkSize
    /\ created_count > 0

(***************************************************************************)
(* C14: a chunk answered 201 adds its whole size to created; one answered  *)
(* 207 adds the number of returned successes to created and the number of  *)
(* returned errors to skipped; any other status, an unreadable answer or a *)
(* transport exception adds its whole size to skipped.                     *)
(***************************************************************************)
AnswerCounts(n, o) ==
    IF o.kind = "201" THEN [created |-> n, skipped |-> 0]
    ELSE IF o.kind = "207" /\ ~o.bad_json
         THEN [created |-> o.results, skipped |-> o.errors]
         ELSE [created |-> 0, skipped |-> n]

C14_AnswerInterpretation ==
    [][i' > i =>
        /\ created_count' =
              created_count + AnswerCounts(BatchLen(profiles, i), response').created
        /\ skipped_count' =
              skipped_count + AnswerCounts(BatchLen(profiles, i), response').skipped]_vars

\* the claim's scenario: 250 profiles, 201 / 207 with 90 and 10 / 201
C14_Scenario ==
    /\ ImportReturned
    /\ profiles = 250
    /\ created_count = 240
    /\ skipped_count = 10
    /\ response.kind = "201"

(***************************************************************************)
(* _standardize_results called on its own with a list of raw records.      *)
(***************************************************************************)
Platforms == {"instagram", "youtube"}

OneEmail ==
    [url |-> JStr("https://instagram.com/jane"),
     contact_details |-> JList(<<JObj([type |-> JStr("EMAIL"), value |-> JStr("a")])>>)]

NameOptions == {[full_name |-> JText(<<"jane", "DOE">>)], [full_name |-> JNum(7)]}

LocationOptions ==
    {[creator_location |-> JObj([city |-> JStr("Austin")])],
     [creator_location |-> JNull],
     [location |-> JNull]}

FollowerOptions == {NoFieldsAtAll, [follower_count |-> JNum(0)], [follower_count |-> JNum(5)]}

SubscriberOptions == {NoFieldsAtAll, [subscriber_count |-> JNum(7)]}

RawRecords ==
    {JStr("oops")}
    \cup {JObj(Merge(Merge(Merge(Merge(OneEmail, n), l), f), sb)) :
             n \in NameOptions, l \in LocationOptions, f \in FollowerOptions,
             sb \in SubscriberOptions}

RawLists == UNION {[1..n -> RawRecords] : n \in 0..MaxRaw}

UnitInit ==
    /\ caller = "direct"
    /\ impl \in Impls
    /\ reqTicks = TicksPerSecond
    /\ user_filters = FiltersRead
    /\ InitLocals
    /\ store = EmptyStore
    /\ expires = EmptyStore
    /\ errorLen = 0

InitStandardize ==
    /\ UnitInit
    /\ RequestIdle
    /\ pc = "standardize"
    /\ platform \in Platforms
    /\ raw_results \in RawLists
    /\ standardized = <<>>
    /\ ExtractIdle
    /\ StoreIdle
    /\ ConcIdle

StandardizeCall ==
    /\ pc = "standardize"
    /\ standardized' = standardize_results(impl, raw_results, platform)
    /\ pc' = "standardized"
    /\ UNCHANGED <<requestVars, configVars, user_filters, clientVars, importVars,
                   recordVars, err,
                   result, now, platform, raw_results, extractVars, storeVars, concVars>>

NextStandardize == StandardizeCall

SpecStandardize == InitStandardize /\ [][NextStandardize]_vars

(***************************************************************************)
(* _extract_contact_details called on its own.                             *)
(***************************************************************************)
DetailTypes == {"email", "EMAIL", "twitter", ""}
DetailValues == {JStr(""), JStr("a"), JStr("b")}

Details ==
    {JStr("oops")}
    \cup {JObj([type |-> JStr(t), value |-> v]) : t \in DetailTypes, v \in DetailValues}

DetailLists == {JNull} \cup {JList(l) : l \in UNION {[1..n -> Details] : n \in 0..MaxDetails}}

InitExtract ==
    /\ UnitInit
    /\ RequestIdle
    /\ pc = "extract"
    /\ StdIdle
    /\ StoreIdle
    /\ ConcIdle
    /\ contact_details \in DetailLists
    /\ contacts = NoFieldsAtAll

ExtractCall ==
    /\ pc = "extract"
    /\ IF ExtractRaises(contact_details)
       THEN /\ pc' = "extract_raised"
            /\ contacts' = contacts
       ELSE /\ pc' = "extracted"
            /\ contacts' = extract_contact_details(impl, contact_details)
    /\ UNCHANGED <<requestVars, configVars, user_filters, clientVars, importVars,
                   recordVars, err,
                   result, now, stdVars, contact_details, storeVars, concVars>>

NextExtract == ExtractCall

SpecExtract == InitExtract /\ [][NextExtract]_vars

(***************************************************************************)
(* update_discovery_job_status called on its own, with time passing        *)
(* between the calls, and the record read back.  The read                  *)
(* (JobStatusStore.get) is r.get on the job key; its answer is consumed    *)
(* before the next step.                                                   *)
(***************************************************************************)
MaxUpdates == 3
MaxStoreHours == 48

StoreStatuses == {"importing", "failed"}
StoreFields ==
    {NoFields, [profiles_found |-> PageLimit \div 2], [profiles_found |-> PageLimit],
     [error |-> ErrJobFailed]}

HourTicks == 3600 * TicksPerSecond
StoreWaits == {12 * HourTicks, 24 * HourTicks}

get_job(st, ex, job_id, t) == JobKey(job_id) \in DOMAIN Visible(st, ex, t)

InitStore ==
    /\ UnitInit
    /\ RequestIdle
    /\ impl = "discovery_module"
    /\ pc = "store"
    /\ StdIdle
    /\ ExtractIdle
    /\ StoreIdle
    /\ ConcIdle

StoreUpdate ==
    /\ Len(updateLog) < MaxUpdates
    /\ \E status \in StoreStatuses, kwargs \in StoreFields :
         /\ store' = update_discovery_job_status(Visible(store, expires, now), JobId,
                                                 status, kwargs, now)
         /\ expires' = SetExpiry(Visible(expires, expires, now), JobKey(JobId), now)
         /\ updateLog' = Append(updateLog, [job_id |-> JobId, status |-> status,
                                            fields |-> kwargs, at |-> now])
    /\ got' = NoRead
    /\ UNCHANGED <<requestVars, configVars, user_filters, clientVars, importVars,
                   statusLog, errorLen, pc, err,
                   result, now, stdVars, extractVars, concVars>>

StoreWait ==
    /\ \E d \in StoreWaits :
         /\ now + d <= MaxStoreHours * HourTicks
         /\ now' = now + d
    /\ got' = NoRead
    /\ UNCHANGED <<requestVars, configVars, user_filters, clientVars, importVars,
                   recordVars, pc, err,
                   result, stdVars, extractVars, updateLog, concVars>>

StoreGet ==
    /\ got = NoRead
    /\ got' = [job_id |-> JobId, found |-> get_job(store, expires, JobId, now)]
    /\ UNCHANGED <<requestVars, configVars, user_filters, clientVars, importVars,
                   recordVars, pc, err,
                   result, now, stdVars, extractVars, updateLog, concVars>>

NextStore ==
    \/ StoreUpdate
    \/ StoreWait
    \/ StoreGet

SpecStore == InitStore /\ [][NextStore]_vars

(***************************************************************************)
(* Two runs of discover_instagram_profiles at once, each with the job id   *)
(* it was given.  update_discovery_job_status is two steps, the read       *)
(* (r.get, json.loads) and the write (r.setex); the search and the import  *)
(* are one step each.                                                      *)
(***************************************************************************)
Runs == {"run-a", "run-b"}
ConcJobIds == {"job-1", "job-2"}

ReadPcs == {"discovering_read", "importing_read", "completed_read", "failed_read"}
WritePcs == {"discovering_write", "importing_write", "completed_write", "failed_write"}

AfterRead(p) ==
    CASE p = "discovering_read" -> "discovering_write"
      [] p = "importing_read" -> "importing_write"
      [] p = "completed_read" -> "completed_write"
      [] p = "failed_read" -> "failed_write"

AfterWrite(p) ==
    CASE p = "discovering_write" -> "search"
      [] p = "importing_write" -> "import"
      [] p = "completed_write" -> "returned"
      [] p = "failed_write" -> "raised"

StatusWritten(p) ==
    CASE p = "discovering_write" -> FirstStatus
      [] p = "importing_write" -> SearchDoneStatus
      [] p = "completed_write" -> ImportDoneStatus
      [] p = "failed_write" -> ErrorStatus

FieldsWritten(p, found) ==
    CASE p = "discovering_write" -> NoFields
      [] p = "importing_write" -> [profiles_found |-> found]
      [] p = "completed_write" ->
            [profiles_found |-> found, new_contacts_created |-> found,
             duplicates_skipped |-> 0]
      [] p = "failed_write" -> ErrorFields(ErrJobFailed)

InitRuns ==
    /\ UnitInit
    /\ RequestIdle
    /\ impl = "discovery_module"
    /\ pc = "runs"
    /\ StdIdle
    /\ ExtractIdle
    /\ StoreIdle
    /\ runJob \in [Runs -> ConcJobIds]
    /\ runPc = [r \in Runs |-> "discovering_read"]
    /\ runData = [r \in Runs |-> NoFields]
    /\ runFound = [r \in Runs |-> 0]
    /\ writers = [j \in ConcJobIds |-> {}]
    /\ runLog = [r \in Runs |-> <<>>]

RunRead(r) ==
    /\ runPc[r] \in ReadPcs
    /\ runData' = [runData EXCEPT ![r] =
                      LoadJobData(Visible(store, expires, now), JobKey(runJob[r]), runJob[r])]
    /\ runPc' = [runPc EXCEPT ![r] = AfterRead(runPc[r])]
    /\ UNCHANGED <<requestVars, configVars, user_filters, clientVars, importVars,
                   recordVars, pc, err,
                   result, now, stdVars, extractVars, storeVars, runJob, runFound, writers,
                   runLog>>

RunWrite(r) ==
    /\ runPc[r] \in WritePcs
    /\ store' = Merge(Visible(store, expires, now),
                      [k \in {JobKey(runJob[r])} |->
                          Dumps(StampAndMerge(runData[r], StatusWritten(runPc[r]),
                                              FieldsWritten(runPc[r], runFound[r]), now))])
    /\ expires' = SetExpiry(Visible(expires, expires, now), JobKey(runJob[r]), now)
    /\ writers' = [writers EXCEPT ![runJob[r]] = @ \cup {r}]
    /\ runLog' = [runLog EXCEPT ![r] =
                     Append(@, [status |-> StatusWritten(runPc[r]),
                                fields |-> FieldsWritten(runPc[r], runFound[r]),
                                at |-> now])]
    /\ runData' = [runData EXCEPT ![r] = NoFields]
    /\ runPc' = [runPc EXCEPT ![r] = AfterWrite(runPc[r])]
    /\ UNCHANGED <<requestVars, configVars, user_filters, clientVars, importVars,
                   statusLog, errorLen, pc, err,
                   result, now, stdVars, extractVars, storeVars, runJob, runFound>>

RunSearch(r) ==
    /\ runPc[r] = "search"
    /\ \E found \in {PageLimit \div 2, PageLimit}, ok \in BOOLEAN :
         IF ok THEN /\ runFound' = [runFound EXCEPT ![r] = found]
                    /\ runPc' = [runPc EXCEPT ![r] = "importing_read"]
         ELSE /\ runFound' = runFound
              /\ runPc' = [runPc EXCEPT ![r] = "failed_read"]
    /\ UNCHANGED <<requestVars, configVars, user_filters, clientVars, importVars,
                   recordVars, pc, err,
                   result, now, stdVars, extractVars, storeVars, runJob, runData, writers,
                   runLog>>

RunImport(r) ==
    /\ runPc[r] = "import"
    /\ \E ok \in BOOLEAN :
         runPc' = [runPc EXCEPT ![r] = IF ok THEN "completed_read" ELSE "failed_read"]
    /\ UNCHANGED <<requestVars, configVars, user_filters, clientVars, importVars,
                   recordVars, pc, err,
                   result, now, stdVars, extractVars, storeVars, runJob, runData, runFound,
                   writers, runLog>>

NextRuns ==
    \/ \E r \in Runs : RunRead(r)
    \/ \E r \in Runs : RunWrite(r)
    \/ \E r \in Runs : RunSearch(r)
    \/ \E r \in Runs : RunImport(r)

SpecRuns == InitRuns /\ [][NextRuns]_vars

(***************************************************************************)
(* C15: for a list of N raw records of which K make the record's           *)
(* processing raise, _standardize_results returns N - K profiles, in input *)
(* order, each being what its own record and the platform determine.       *)
(***************************************************************************)
WellFormed == SelectSeq(raw_results, LAMBDA p : ~StdRaises(impl, p))

MalformedCount ==
    Cardinality({k \in 1..Len(raw_results) : StdRaises(impl, raw_results[k])})

TypeOf(detail) == Lower(Get(detail[2], "type", JStr(""))[2])
ValueOf(detail) == Get(detail[2], "value", JStr(""))
Usable(detail) == TypeOf(detail) # "" /\ Truthy(ValueOf(detail))

ContactKey(im, t) ==
    IF im = "discovery_module" /\ t \notin {"email", "phone"} THEN t \o "_url" ELSE t

C16_FirstOccurrenceKept ==
    pc = "extracted" =>
        \A k \in 1..Len(contact_details[2]) :
            LET d == contact_details[2][k]
            IN  (/\ Usable(d)
                 /\ \A j \in 1..(k - 1) :
                       ~(Usable(contact_details[2][j])
                         /\ TypeOf(contact_details[2][j]) = TypeOf(d)))
                => /\ ContactKey(impl, TypeOf(d)) \in DOMAIN contacts
                   /\ contacts[ContactKey(impl, TypeOf(d))] = ValueOf(d)

(***************************************************************************)
(* C17: the follower count of a canonical profile is the raw record's      *)
(* follower_count whenever the record has that field, whatever its value.  *)
(***************************************************************************)
FollowerField(im) ==
    IF im = "discovery_module" THEN "follower_count" ELSE "instagram_followers"

C17_FollowerCountWhenPresent ==
    pc = "standardized" =>
        \A k \in 1..Len(standardized) :
            "follower_count" \in DOMAIN WellFormed[k][2] =>
                standardized[k][FollowerField(impl)] = WellFormed[k][2].follower_count

(***************************************************************************)
(* C18: update is a merge.  While the record lives, it holds the job id,   *)
(* the status and the time of the latest update, and for every field       *)
(* supplied since the record was created the value of the latest update    *)
(* that supplied it; it holds nothing else.  An update that finds no       *)
(* record creates one.                                                     *)
(***************************************************************************)
DayTicks == 24 * HourTicks

Live == get_job(store, expires, JobId, now)

\* the update that found no record: the first one, or one made 24 h or
\* more after its predecessor
Creates(k) == k = 1 \/ updateLog[k].at >= updateLog[k - 1].at + DayTicks

Birth ==
    CHOOSE k \in 1..Len(updateLog) :
        /\ Creates(k)
        /\ \A j \in (k + 1)..Len(updateLog) : ~Creates(j)

SuppliedSinceBirth == UNION {DOMAIN updateLog[k].fields : k \in Birth..Len(updateLog)}

LastSupplier(f) ==
    CHOOSE k \in Birth..Len(updateLog) :
        /\ f \in DOMAIN updateLog[k].fields
        /\ \A j \in (k + 1)..Len(updateLog) : f \notin DOMAIN updateLog[j].fields

C18_UpdateIsMerge ==
    (pc = "store" /\ updateLog # <<>> /\ Live) =>
        /\ DOMAIN Record = {"job_id", "status", "updated_at"} \cup SuppliedSinceBirth
        /\ Record["job_id"] = JobId
        /\ Record["status"] = updateLog[Len(updateLog)].status
        /\ Record["updated_at"] = updateLog[Len(updateLog)].at
        /\ \A f \in SuppliedSinceBirth :
              Record[f] = updateLog[LastSupplier(f)].fields[f]

C18_Witness ==
    /\ pc = "store"
    /\ Len(updateLog) = 3
    /\ Live
    /\ DOMAIN updateLog[1].fields = {"profiles_found"}
    /\ DOMAIN updateLog[2].fields = {"profiles_found"}
    /\ updateLog[1].fields # updateLog[2].fields
    /\ updateLog[3].status = "failed"
    /\ DOMAIN updateLog[3].fields = {"error"}
    /\ updateLog[1].status = "importing"
    /\ Record["profiles_found"] = updateLog[2].fields.profiles_found
    /\ Record["error"] = ErrJobFailed

(***************************************************************************)
(* C19: a record is readable exactly until 24 hours after its most recent  *)
(* update; a read made then or later finds no record.                      *)
(***************************************************************************)
C19_ExpiryFromLastUpdate ==
    pc = "store" =>
        /\ Live <=> /\ updateLog # <<>>
                    /\ now < updateLog[Len(updateLog)].at + DayTicks
        /\ got # NoRead => (got.found <=> Live)

C19_Witness ==
    /\ pc = "store"
    /\ Len(updateLog) >= 2
    /\ got # NoRead
    /\ ~got.found
    /\ now = updateLog[Len(updateLog)].at + DayTicks
    /\ updateLog[Len(updateLog)].at > 0

C19_WitnessRefreshed ==
    /\ pc = "store"
    /\ Len(updateLog) = 2
    /\ got # NoRead
    /\ got.found
    /\ now >= updateLog[1].at + DayTicks

(***************************************************************************)
(* C20: the record of a job id is written by one run only; a run that      *)
(* writes a record replaces the very version it read, so no update of      *)
(* another writer is lost.                                                 *)
(***************************************************************************)
C20_OneWriterPerJob ==
    pc = "runs" => \A j \in ConcJobIds : Cardinality(writers[j]) <= 1

\* the write of a run replaces what the run read
C20_NoLostUpdate ==
    [][\A r \in Runs :
          (pc = "runs" /\ runPc[r] \in WritePcs /\ runPc'[r] # runPc[r]) =>
              runData[r] = LoadJobData(Visible(store, expires, now), JobKey(runJob[r]),
                                       runJob[r])]_vars

\* both runs ended, one of them by writing failed with its error, and the
\* record holds no error
C20_LostUpdateLeft ==
    /\ pc = "runs"
    /\ runJob["run-a"] = runJob["run-b"]
    /\ runPc["run-a"] = "raised"
    /\ runPc["run-b"] = "returned"
    /\ "error" \notin DOMAIN Loads(store[JobKey(runJob["run-a"])])

(***************************************************************************)
(* C21: two runs of different job ids do not affect each other.  Whatever  *)
(* the interleaving, the record of each job is the one its own run would   *)
(* have left running alone (same statuses in the same order, same          *)
(* counters), a run reads the record of its own job only, and its write    *)
(* leaves the record of the other job as it was.                           *)
(***************************************************************************)
RECURSIVE AloneStore(_, _, _)
AloneStore(log, job_id, k) ==
    IF k = 0 THEN EmptyStore
    ELSE update_discovery_job_status(AloneStore(log, job_id, k - 1), job_id, log[k].status,
                                     log[k].fields, log[k].at)

DifferentJobs == pc = "runs" /\ runJob["run-a"] # runJob["run-b"]

RecordAsAlone(r) ==
    LET alone == AloneStore(runLog[r], runJob[r], Len(runLog[r]))
        key == JobKey(runJob[r])
    IN  /\ key \in DOMAIN store <=> key \in DOMAIN alone
        /\ key \in DOMAIN store => store[key] = alone[key]
        /\ runPc[r] \in WritePcs =>
              runData[r] = LoadJobData(alone, key, runJob[r])

OthersUntouched(r) ==
    \A k \in DOMAIN store :
        k # JobKey(runJob[r]) => k \in DOMAIN store' /\ store'[k] = store[k]

C21_JobsIndependent ==
    /\ [](DifferentJobs => \A r \in Runs : RecordAsAlone(r))
    /\ [][\A r \in Runs :
             (DifferentJobs /\ runLog'[r] # runLog[r]) => OthersUntouched(r)]_vars

\* one job failed and the other completed, each with its own record
C21_Witness ==
    /\ DifferentJobs
    /\ runPc["run-a"] = "raised"
    /\ runPc["run-b"] = "returned"
    /\ Loads(store[JobKey(runJob["run-a"])]).status = ErrorStatus
    /\ Loads(store[JobKey(runJob["run-b"])]).status = ImportDoneStatus

(***************************************************************************)
(* C22: a poll answered IN_PROGRESS changes only the poll count and the    *)
(* clock: the offset, the profiles accumulated and the start time of the   *)
(* deadline stay as they were, and the next poll is sent 60 s after the    *)
(* answer.  No poll ever changes the start time.  The offset changes only  *)
(* by the page limit, and only after a page that holds records and does    *)
(* not end the loop.                                                       *)
(***************************************************************************)
InProgressStep == pc = "poll" /\ inProgress' = inProgress + 1

OffsetStep == pc = "poll" /\ pc' = "poll" /\ offset' # offset

C22_InProgressFrame ==
    /\ [][InProgressStep =>
             /\ offset' = offset
             /\ all_results' = all_results
             /\ start_time' = start_time
             /\ poll_count' = poll_count + 1
             /\ pc' = "poll" =>
                   now' = now + reqTicks + PollSleep * TicksPerSecond]_vars
    /\ [][pc = "poll" => start_time' = start_time]_vars
    /\ [][pc = "poll" /\ pc' # "poll" => offset' = offset]_vars
    /\ [][OffsetStep =>
             /\ offset' = offset + PageLimit
             /\ inProgress' = inProgress
             /\ lastPage'.offset = offset
             /\ lastPage'.data > 0
             /\ offset + PageLimit < lastPage'.total_results]_vars

\* the second page is asked for after one page and one IN_PROGRESS answer,
\* with the deadline still counted from the end of the submission
C22_Witness ==
    /\ pc = "poll"
    /\ inProgress = 1
    /\ poll_count = 2
    /\ offset = PageLimit
    /\ all_results = PageLimit
    /\ start_time = submitAt + reqTicks
    /\ now = start_time + 2 * reqTicks + PollSleep * TicksPerSecond

(***************************************************************************)
(* C23: when a poll is answered with status FAILED the search raises an    *)
(* error whose message holds the vendor's error text, no further poll is   *)
(* sent, the pages fetched so far are not returned and nothing is          *)
(* imported, and the record of the job ends failed with that message.      *)
(***************************************************************************)
VendorReportedFailure == pollAnswer.kind = "FAILED"

VendorText == IF pollAnswer.error = None THEN "Unknown error" ELSE pollAnswer.error

C23_VendorFailureIsFatal ==
    /\ [](VendorReportedFailure =>
             /\ err = "Job failed: " \o VendorText
             /\ pc \in {"handle_error", "raised"}
             /\ returnedAt = NotYet
             /\ result = None
             /\ profiles = 0
             /\ crmRequests = 0
             /\ (caller # "direct" /\ pc = "raised") =>
                    /\ Status = "failed"
                    /\ LastWritten = "failed"
                    /\ Field(Record, "error") = "Job failed: " \o VendorText)
    /\ [][VendorReportedFailure =>
             /\ pollsSent' = pollsSent
             /\ submitCount' = submitCount
             /\ pollAnswer' = pollAnswer]_vars

\* the vendor failed the job after a first page had been fetched
C23_Witness ==
    /\ VendorReportedFailure
    /\ pollAnswer.error = "quota exceeded"
    /\ caller = "worker"
    /\ pc = "raised"
    /\ all_results = PageLimit
    /\ pollsSent = 2
    /\ Record["error"] = "Job failed: quota exceeded"

(***************************************************************************)
(* C24: a transport failure of the submission request or of a poll request *)
(* ends the search with an error: the request is not sent again, no other  *)
(* request goes to the vendor, no profile is returned or imported, and the *)
(* record of the job ends failed.                                          *)
(***************************************************************************)
SubmitTransportFailed == submitResp.transport_error

PollTransportFailed == pollAnswer.kind = "transport_error"

TransportFailed == SubmitTransportFailed \/ PollTransportFailed

C24_TransportFailureIsFatal ==
    /\ [](TransportFailed =>
             /\ SubmitTransportFailed => err = ErrConnect /\ pollsSent = 0
             /\ PollTransportFailed => err = ErrFetchTransport
             /\ pc \in {"handle_error", "raised"}
             /\ submitCount = 1
             /\ returnedAt = NotYet
             /\ result = None
             /\ profiles = 0
             /\ crmRequests = 0
             /\ (caller # "direct" /\ pc = "raised") =>
                    /\ Status = "failed"
                    /\ LastWritten = "failed"
                    /\ Field(Record, "error") = err)
    /\ [][TransportFailed =>
             /\ pollsSent' = pollsSent
             /\ submitCount' = submitCount
             /\ submitResp' = submitResp
             /\ pollAnswer' = pollAnswer]_vars

\* the connection broke on the poll for the second page
C24_Witness ==
    /\ PollTransportFailed
    /\ caller = "worker"
    /\ pc = "raised"
    /\ all_results = PageLimit
    /\ pollsSent = 2
    /\ Status = "failed"

\* the connection broke on the submission
C24_WitnessSubmit ==
    /\ SubmitTransportFailed
    /\ caller = "inline"
    /\ pc = "raised"
    /\ Record["error"] = ErrConnect

(***************************************************************************)
(* C25: nine polls in a row are answered IN_PROGRESS and the tenth is      *)
(* answered with a page of no records and total_results = 0.  The tenth    *)
(* poll is sent (the deadline has not passed), the search returns, the     *)
(* standardized list is empty, and the job ends completed with             *)
(* profiles_found = 0, new_contacts_created = 0 and duplicates_skipped = 0 *)
(* without a request to the CRM.  (The importer needs its API key.)        *)
(***************************************************************************)
NinePending == inProgress = 9 /\ pollsSent = 9 /\ pc = "poll"

EmptyPage == [kind |-> "page", data |-> 0, total_results |-> 0, error |-> None]

NineThenEmpty == inProgress = 9 /\ pollsSent = 10 /\ pollAnswer = EmptyPage

\* the same run after _fetch_results has returned
NineThenEmptyFetched ==
    /\ inProgress = 9
    /\ pollsSent = 10
    /\ SearchSucceeded
    /\ pc # "fetched"
    /\ profiles = 0

C25_Witness ==
    /\ NineThenEmpty
    /\ caller = "worker"
    /\ now < TaskTimeLimit * TicksPerSecond

MaxClauses == 2

SearchPlatforms == DOMAIN PLATFORM_CONFIGS \cup {"twitter"}

Only(k, v) == [x \in {k} |-> v]

MaxResultsOptions ==
    {0 - 1, 0, 1, DefaultMaxResults, MaxResultsCap, MaxResultsCap + 1, 5000}

RangeOptions ==
    {NoFieldsAtAll, [min |-> JNum(5000)], [max |-> JNum(50000)],
     [min |-> JNum(5000), max |-> JNum(50000)]}

RangeFilters ==
    {Merge(m, f) :
        m \in {NoFieldsAtAll} \cup {Only("max_results", JNum(n)) : n \in MaxResultsOptions},
        f \in {NoFieldsAtAll} \cup {Only("follower_count", JObj(r)) : r \in RangeOptions}}

LookalikeFilters ==
    {NoFieldsAtAll, [lookalike_type |-> JStr("creator")]}
    \cup {[lookalike_type |-> JStr(t), lookalike_username |-> JText(h)] :
             t \in LookalikeTypes \ {None}, h \in Handles}

ListOptions(k) == {NoFieldsAtAll, Only(k, JList(<<>>)), Only(k, JList(<<JStr("Travel")>>))}

\* user filters with keys named like request fields the user does not set
Overrides ==
    [sort_by |-> JObj([field |-> JStr("ENGAGEMENT_RATE"), order |-> JStr("ASCENDING")]),
     creator_language |-> JObj([code |-> JStr("es")]),
     creator_locations |-> JList(<<>>),
     work_platform_id |-> JStr("other"),
     subscriber_count |-> JObj([min |-> JNum(1)]),
     contact_details |-> JList(<<>>)]

OptionalFilters ==
    {Merge(Merge(Merge(l, c), Merge(a, h)), o) :
        l \in LookalikeFilters, c \in ListOptions("creator_interests"),
        a \in ListOptions("audience_interests"), h \in ListOptions("hashtags"),
        o \in {NoFieldsAtAll, Overrides}}

PhraseOptions == {<<>>, <<" ">>, <<"a">>, <<" ", "a">>}

ClauseOptions ==
    {JObj([bio_phrase |-> JText(p), action |-> JStr(a)]) :
        p \in PhraseOptions, a \in {"AND", "NOT", "XOR"}}
    \cup {JObj([action |-> JStr("OR")]), JStr("a")}

ShortLists == UNION {[1..n -> ClauseOptions] : n \in 0..MaxClauses}

\* n clauses with actions AND, OR, NOT in turn; the one at position bad has
\* a blank phrase
LongList(n, bad) ==
    [k \in 1..n |->
        JObj([bio_phrase |-> JText(IF k = bad THEN <<" ">>
                                   ELSE IF k % 2 = 0 THEN <<"a">> ELSE <<" ", "a">>),
              action |-> JStr(IF k % 3 = 1 THEN "AND" ELSE IF k % 3 = 2 THEN "OR" ELSE "NOT")])]

LongLists == {LongList(n, bad) : n \in MaxBioClauses..(MaxBioClauses + 2), bad \in 0..3}

BioFilters ==
    {Merge(b, a) :
        b \in {NoFieldsAtAll, Only("bio_phrase", JNull)}
              \cup {Only("bio_phrase", JText(p)) : p \in PhraseOptions},
        a \in {NoFieldsAtAll, Only("bio_phrase_advanced", JNull),
               Only("bio_phrase_advanced", JStr("a"))}
              \cup {Only("bio_phrase_advanced", JList(l)) : l \in ShortLists \cup LongLists}}

FullFilters ==
    [max_results |-> JNum(5000),
     follower_count |-> JObj([min |-> JNum(5000), max |-> JNum(50000)]),
     lookalike_type |-> JStr("creator"),
     lookalike_username |-> JText(<<"a">>),
     creator_interests |-> JList(<<JStr("Travel")>>),
     audience_interests |-> JList(<<JStr("Travel")>>),
     hashtags |-> JList(<<JObj([name |-> JStr("travel")])>>),
     bio_phrase |-> JText(<<"a">>),
     bio_phrase_advanced |->
         JList(<<JObj([bio_phrase |-> JText(<<"a">>), action |-> JStr("NOT")])>>)]

UserFilters ==
    {JNull}
    \cup {JObj(Merge(b, f)) :
             b \in {NoFieldsAtAll, FullFilters},
             f \in RangeFilters \cup OptionalFilters \cup BioFilters}

\* the searches a process makes after its first one
FollowUps ==
    [pf : {"instagram", "youtube"}, filters : {JNull, JObj(FullFilters), JObj(Overrides)}]

InitRequest ==
    /\ UnitInit
    /\ pc = "request"
    /\ StdIdle
    /\ ExtractIdle
    /\ StoreIdle
    /\ ConcIdle
    /\ search_platform \in SearchPlatforms
    /\ search_filters \in UserFilters
    /\ parameters = JNull
    /\ fixed_params = FIXED_PARAMS

SearchCall ==
    /\ pc = "request"
    /\ IF SearchRaises(search_platform)
       THEN /\ pc' = "unsupported"
            /\ UNCHANGED <<parameters, fixed_params>>
       ELSE LET built == BuildParameters(impl, fixed_params, search_platform, search_filters)
            IN  /\ pc' = "built"
                /\ parameters' = JObj(built)
                /\ fixed_params' = FixedParamsAfter(fixed_params, built)
    /\ UNCHANGED <<configVars, user_filters, clientVars, importVars, recordVars, err, result,
                   now, stdVars, extractVars, storeVars, concVars, search_platform,
                   search_filters>>

NextSearch ==
    /\ pc \in {"built", "unsupported"}
    /\ \E f \in FollowUps :
         /\ search_platform' = f.pf
         /\ search_filters' = f.filters
    /\ pc' = "request"
    /\ parameters' = JNull
    /\ UNCHANGED <<configVars, user_filters, clientVars, importVars, recordVars, err, result,
                   now, stdVars, extractVars, storeVars, concVars, fixed_params>>

NextRequest == SearchCall \/ NextSearch

SpecRequest == InitRequest /\ [][NextRequest]_vars

\* the request built and the user filters it was built from
Request == parameters[2]
Filters == IF Truthy(search_filters) THEN search_filters[2] ELSE NoFieldsAtAll
Built == pc = "built"

(***************************************************************************)
(* C26: a request for youtube holds the follower constraint under          *)
(* subscriber_count and has no follower_count; a request for instagram,    *)
(* tiktok or facebook holds it under follower_count and has no             *)
(* subscriber_count.  Every request has exactly one of the two.            *)
(***************************************************************************)
RequestedRange ==
    LET r == IF "follower_count" \in DOMAIN Filters THEN Filters["follower_count"][2]
             ELSE NoFieldsAtAll
    IN  JObj([min |-> IF "min" \in DOMAIN r THEN r["min"] ELSE JNum(DefaultMinFollowers),
              max |-> IF "max" \in DOMAIN r THEN r["max"] ELSE JNum(DefaultMaxFollowers)])

C26_RangeFieldByPlatform ==
    Built =>
        /\ search_platform = "youtube" =>
              /\ "subscriber_count" \in DOMAIN Request
              /\ "follower_count" \notin DOMAIN Request
              /\ Request["subscriber_count"] = RequestedRange
        /\ search_platform \in {"instagram", "tiktok", "facebook"} =>
              /\ "follower_count" \in DOMAIN Request
              /\ "subscriber_count" \notin DOMAIN Request
              /\ Request["follower_count"] = RequestedRange
        /\ search_platform \in {"youtube", "instagram", "tiktok", "facebook"}

\* a youtube search whose filters name follower_count and subscriber_count
C26_Witness ==
    /\ Built
    /\ search_platform = "youtube"
    /\ impl = "discovery_module"
    /\ {"follower_count", "subscriber_count"} \subseteq DOMAIN Filters
    /\ Request["subscriber_count"] = JObj([min |-> JNum(5000), max |-> JNum(50000)])

(***************************************************************************)
(* C27: max_results of the request is the smaller of the requested value   *)
(* and 4000: a value above 4000 is sent as 4000 and the request is built,  *)
(* a value of at most 4000 is sent as it is, and when the filters name no  *)
(* max_results 500 is sent.                                                *)
(***************************************************************************)
RequestedMax == Filters["max_results"][2]

C27_MaxResultsClamped ==
    Built =>
        /\ "max_results" \in DOMAIN Request
        /\ "max_results" \notin DOMAIN Filters =>
              Request["max_results"] = JNum(DefaultMaxResults)
        /\ ("max_results" \in DOMAIN Filters /\ RequestedMax > MaxResultsCap) =>
              Request["max_results"] = JNum(MaxResultsCap)
        /\ ("max_results" \in DOMAIN Filters /\ RequestedMax <= MaxResultsCap) =>
              Request["max_results"] = JNum(RequestedMax)

\* 5000 asked for on instagram
C27_Witness ==
    /\ Built
    /\ search_platform = "instagram"
    /\ "max_results" \in DOMAIN Filters
    /\ RequestedMax = 5000
    /\ Request["max_results"] = JNum(4000)

\* no max_results in the filters
C27_WitnessDefault ==
    /\ Built
    /\ search_filters = JNull
    /\ Request["max_results"] = JNum(500)

(***************************************************************************)
(* C28: whatever the user filters hold, keys named like fixed parameters   *)
(* included, every key of FIXED_PARAMS is in the request with its fixed    *)
(* value; building a request leaves the class attribute FIXED_PARAMS as it *)
(* was; and the other keys of the request are work_platform_id,            *)
(* max_results, the follower or subscriber range and, of the optional      *)
(* fields, those the filters give.                                         *)
(***************************************************************************)
EnumeratedKeys ==
    {"work_platform_id", "max_results", "follower_count", "subscriber_count",
     "creator_lookalikes", "audience_lookalikes", "creator_interests",
     "audience_interests", "hashtags", "bio_phrase", "bio_phrase_advanced"}

C28_FixedBlockKept ==
    /\ fixed_params = FIXED_PARAMS
    /\ Built =>
          /\ \A k \in DOMAIN FIXED_PARAMS :
                k \in DOMAIN Request /\ Request[k] = FIXED_PARAMS[k]
          /\ DOMAIN Request \subseteq DOMAIN FIXED_PARAMS \cup EnumeratedKeys
          /\ {"work_platform_id", "max_results"} \subseteq DOMAIN Request
          /\ Request["work_platform_id"] = JStr(PLATFORM_CONFIGS[search_platform])
          /\ DOMAIN Request \ DOMAIN Filters \subseteq
                DOMAIN FIXED_PARAMS
                \cup {"work_platform_id", "max_results", "follower_count",
                      "subscriber_count", "creator_lookalikes", "audience_lookalikes"}

\* the filters name sort_by, creator_language, creator_locations and
\* work_platform_id with values of their own
C28_Witness ==
    /\ Built
    /\ DOMAIN Overrides \subseteq DOMAIN Filters
    /\ Filters["sort_by"] # FIXED_PARAMS["sort_by"]
    /\ Request["sort_by"] = FIXED_PARAMS["sort_by"]
    /\ "creator_lookalikes" \in DOMAIN Request
    /\ "contact_details" \notin DOMAIN Request

\* filters made of such keys only: the request is the fixed block and the
\* three computed fields
C28_WitnessForeignKeysOnly ==
    /\ Built
    /\ search_filters = JObj(Overrides)
    /\ fixed_params = FIXED_PARAMS
    /\ DOMAIN Request = DOMAIN FIXED_PARAMS \cup {"work_platform_id", "max_results",
                                                  "follower_count"}

(***************************************************************************)
(* C29: no request holds both bio_phrase and bio_phrase_advanced.  When    *)
(* the filters give a plain phrase and advanced clauses (app/services),    *)
(* the clauses are sent and the plain phrase is not.  The clauses sent are *)
(* at most 14, each with a phrase that is not blank and an action among    *)
(* AND, OR, NOT, and they are the first of the usable clauses given, in    *)
(* the order given.                                                        *)
(***************************************************************************)
GivenClauses ==
    IF "bio_phrase_advanced" \in DOMAIN Filters /\ IsList(Filters["bio_phrase_advanced"])
    THEN Filters["bio_phrase_advanced"][2]
    ELSE <<>>

GivenPlain ==
    IF "bio_phrase" \in DOMAIN Filters /\ Filters["bio_phrase"][1] = "text"
    THEN Filters["bio_phrase"][2]
    ELSE <<>>

Blank(s) == \A k \in 1..Len(s) : s[k] = " "

UsableClause(e) ==
    /\ e[1] = "obj"
    /\ "bio_phrase" \in DOMAIN e[2]
    /\ ~Blank(e[2]["bio_phrase"][2])
    /\ "action" \in DOMAIN e[2]
    /\ e[2]["action"] \in {JStr("AND"), JStr("OR"), JStr("NOT")}

UsableUpTo(j) == Cardinality({x \in 1..j : UsableClause(GivenClauses[x])})

\* the position in the given list of the n-th usable clause
PositionOf(n) ==
    CHOOSE j \in 1..Len(GivenClauses) : UsableClause(GivenClauses[j]) /\ UsableUpTo(j) = n

SentClauses == Request["bio_phrase_advanced"][2]

C29_AdvancedOverPlain ==
    Built =>
        /\ ~({"bio_phrase", "bio_phrase_advanced"} \subseteq DOMAIN Request)
        /\ (impl = "app_services" /\ ~Blank(GivenPlain)
              /\ UsableUpTo(Len(GivenClauses)) > 0) =>
                 /\ "bio_phrase_advanced" \in DOMAIN Request
                 /\ "bio_phrase" \notin DOMAIN Request
        /\ "bio_phrase_advanced" \in DOMAIN Request =>
              /\ Len(SentClauses) >= 1
              /\ Len(SentClauses) <= MaxBioClauses
              /\ Len(SentClauses) =
                    IF UsableUpTo(Len(GivenClauses)) < MaxBioClauses
                    THEN UsableUpTo(Len(GivenClauses)) ELSE MaxBioClauses
              /\ \A n \in 1..Len(SentClauses) :
                    /\ DOMAIN SentClauses[n][2] = {"bio_phrase", "action"}
                    /\ SentClauses[n][2]["action"] = GivenClauses[PositionOf(n)][2]["action"]
                    /\ SentClauses[n][2]["action"][2] \in {"AND", "OR", "NOT"}
                    /\ SentClauses[n][2]["bio_phrase"] =
                          JText(Strip(GivenClauses[PositionOf(n)][2]["bio_phrase"][2]))
                    /\ SentClauses[n][2]["bio_phrase"][2] # <<>>

\* sixteen clauses given, one of them blank, with a plain phrase: the first
\* fourteen usable ones are sent
C29_Witness ==
    /\ Built
    /\ impl = "app_services"
    /\ GivenPlain = <<"a">>
    /\ Len(GivenClauses) = MaxBioClauses + 2
    /\ UsableUpTo(Len(GivenClauses)) = MaxBioClauses + 1
    /\ "bio_phrase" \notin DOMAIN Request
    /\ Len(SentClauses) = MaxBioClauses
    /\ PositionOf(MaxBioClauses) = MaxBioClauses + 1

\* a plain phrase alone is sent stripped
C29_WitnessPlain ==
    /\ Built
    /\ impl = "app_services"
    /\ GivenPlain = <<" ", "a">>
    /\ "bio_phrase_advanced" \notin DOMAIN Filters
    /\ Request["bio_phrase"] = JText(<<"a">>)

(***************************************************************************)
(* C30: the filters are validated before the job is marked discovering:    *)
(* the record of a job whose filters fail the validation never shows       *)
(* discovering, its first and only status is failed.                       *)
(***************************************************************************)
FilterErrors == {ErrLookalikeType, ErrLookalikeUsername}

C30_ValidationBeforeDiscovering ==
    (caller # "direct" /\ err \in FilterErrors) =>
        /\ \A k \in 1..Len(statusLog) : statusLog[k] # "discovering"
        /\ pc = "raised" => statusLog = <<"failed">>

(***************************************************************************)
(* C31: whenever a job ends failed, the error message persisted in its     *)
(* record is truncated: its length stays under a fixed maximum, whatever   *)
(* the length of the vendor's response text or of the raised error's       *)
(* message.  A maximum that does not depend on the text is smaller than    *)
(* the longest text the vendor sends, MaxTextLen here.                     *)
(***************************************************************************)
FailedByThisRun == pc = "raised" /\ caller # "direct" /\ Status = "failed"

C31_ErrorTruncated == FailedByThisRun => errorLen < MaxTextLen

(***************************************************************************)
(* C32: a job record is not resurrected after expiry: once the record of   *)
(* a job id has expired from the store, no later operation creates a       *)
(* record for that job id again, and a read of the job id keeps reporting  *)
(* it absent.                                                              *)
(***************************************************************************)
RecordExpired == updateLog # <<>> /\ ~HasRecord

ReadsAbsent == got.job_id = JobId => ~got.found

C32_NoResurrection == [][RecordExpired => ~HasRecord' /\ ReadsAbsent']_vars

(***************************************************************************)
(* C33: for every filter set the max_results sent to the vendor lies in    *)
(* 1..4000: no request carries a max_results of 0, a negative number or    *)
(* more than 4000.                                                         *)
(***************************************************************************)
SentMax == Request["max_results"][2]

C33_MaxResultsInRange == Built => SentMax \in 1..MaxResultsCap

(***************************************************************************)
(* C34: CRM bulk-create requests are sent only while the job's record has  *)
(* status importing: none before the poll loop has ended with success and  *)
(* the record has been marked importing, none after the record has been    *)
(* marked completed or failed, and a job that fails during validation,     *)
(* submission or polling makes no CRM request at all.                      *)
(***************************************************************************)
CrmRequestSent == crmRequests' > crmRequests

FailedBeforeImport == pc = "raised" /\ ~SearchSucceeded

C34_CrmOnlyWhileImporting ==
    /\ [][CrmRequestSent =>
            /\ SearchSucceeded
            /\ Status = "importing"
            /\ statusLog # <<>> /\ LastWritten = "importing"]_vars
    /\ [](FailedBeforeImport => crmRequests = 0)
    /\ []((statusLog # <<>> /\ Terminal(LastWritten)) => pc \in {"returned", "raised"})

\* a job that sent two bulk-create requests and was then marked completed
C34_Witness == crmRequests = 2 /\ Status = "completed" /\ pc = "returned"

\* a job that failed in the poll loop
C34_WitnessFailed == FailedBeforeImport /\ pollsSent > 0 /\ Status = "failed"

(***************************************************************************)
(* C35: whenever a job's record has status completed, its profiles_found   *)
(* equals new_contacts_created + duplicates_skipped, profiles_found is the *)
(* number that was written with the importing status, and the summary the  *)
(* run returned carries the same three numbers as the record.              *)
(***************************************************************************)
CountsAddUp ==
    Record["profiles_found"] = Record["new_contacts_created"] + Record["duplicates_skipped"]

SummaryMatchesRecord ==
    /\ result.profiles_found = Record["profiles_found"]
    /\ result.new_contacts = Record["new_contacts_created"]
    /\ result.duplicates = Record["duplicates_skipped"]

FoundKept ==
    (Status = "importing" /\ Status' = "completed") =>
        Record'["profiles_found"] = Record["profiles_found"]

C35_CompletedCountsAgree ==
    /\ [](Status = "completed" => CountsAddUp)
    /\ []((Status = "completed" /\ pc = "returned") => SummaryMatchesRecord)
    /\ [][FoundKept]_vars

(***************************************************************************)
(* _fetch_results called on its own, for a vendor that answers each poll   *)
(* as it likes: IN_PROGRESS, FAILED, an error, a page of any total, or a   *)
(* full page whose total_results lies beyond the page, however far the     *)
(* offset has come.  Each request takes reqTicks.                          *)
(***************************************************************************)
MorePages ==
    [kind : {"page"}, data : {PageLimit}, total_results : {offset + 2 * PageLimit},
     error : {None}]

AnyResponses == PollResponses \cup MorePages

InitPoll ==
    /\ UnitInit
    /\ UnitIdle
    /\ pc = "poll"

FetchStep == PollFrom(AnyResponses)

NextPoll == FetchStep

SpecPoll == InitPoll /\ [][NextPoll]_vars

\* the loop is sequential code: while it has a next statement it executes it
SpecPollFair == SpecPoll /\ WF_vars(NextPoll)

(***************************************************************************)
(* C36: the poll loop always terminates: for every vendor behaviour (any   *)
(* sequence of IN_PROGRESS answers, pages with any total_results, growing  *)
(* ones included, FAILED answers and transport errors), each request and   *)
(* each sleep taking a positive time, the search eventually returns its    *)
(* list or raises; it never polls forever.                                 *)
(***************************************************************************)
LoopEnded == pc \in {"fetched", "raised"}

C36_PollLoopTerminates == <>LoopEnded

\* the vendor's total grew with every page until the deadline ended the loop
C36_Witness == pc = "raised" /\ err = ErrTimeout /\ offset > MaxPages * PageLimit

\* the loop returned its list after the vendor answered IN_PROGRESS
C36_WitnessReturned == pc = "fetched" /\ inProgress > 0 /\ all_results > 0

====
